---------------------------- MODULE Spec2Model ----------------------------
(***************************************************************************)
(* A model of the simulation-orchestration core of the repository:        *)
(*   EventBus               src/backend/simulation-engine/event_bus.py     *)
(*   TickScheduler          src/backend/simulation-engine/tick.py          *)
(*   SimulationOrchestrator src/backend/simulation_engine/orchestrator.py  *)
(* Every asyncio task is a process of the model; a step of the model is    *)
(* the code a task runs between two points where it can be suspended.      *)
(***************************************************************************)
EXTENDS Integers, Sequences, FiniteSets, TLC

(***************************************************************************)
(* Bounds of the model.                                                    *)
(***************************************************************************)
\* publish calls made on the bus
MaxPublish == 3
\* EventBus(max_queue_size=...)
MaxQueueSize == 2
\* EventBus(max_history=...)
MaxHistory == 2
\* subscribe calls made on the bus
MaxSubscribe == 2
\* handler invocations that raise
MaxRaises == 1
\* calls of SimulationOrchestrator.initialize
MaxInitCalls == 2
\* ticks begun on the scheduler
MaxTicks == 3
\* the argument of fast_forward
MaxFastForward == 2
\* operations asked of a run's random generator
MaxDraws == 4
\* the highest to_version given to migrate_state
MaxVersion == 3
\* calls of SimulationOrchestrator.start
MaxStarts == 2
\* ticks begun by all the schedulers together
MaxLifeTicks == 3
\* the largest limit get_event_history is given
MaxLimit == 3
\* calls made of CircuitBreaker.call
MaxBreakerCalls == 5
\* seconds that pass after the breaker was constructed
MaxClock == 4
\* the largest max_retries given to RetryWithBackoff
MaxRetries == 3
\* calls of TaskQueue.enqueue
MaxTasks == 4
\* max_queue_size given to the TaskQueue (the default is 1000)
MaxTaskQueueSize == 3

\* EventBus(worker_count=...)
WorkerCounts == {1, 2}
\* EventBus(backpressure_strategy=...)
Policies == {"drop", "block", "log"}
EventTypes == {"a", "b"}
Wildcard == "*"
SubKeys == EventTypes \cup {Wildcard}
Handlers == {"h1", "h2"}
NoEvent == [id |-> 0, type |-> "none"]
\* the engines that can be registered, by name
EngineNames == {"A", "B", "C"}
\* a dependency name no registered engine has
Unregistered == "X"
NoEngine == "-"
\* the engine objects: one per name, and second objects that carry the
\* names "A" and "B" again
EngineObjects == EngineNames \cup {"A2", "B2"}
\* the engines registered when the simulation runs
SimEngines == {"A", "B"}
Priorities == {0, 1}
\* start(tick_rate=1.0): seconds of sleep between ticks
DefaultTickRate == 1
\* time_per_tick = timedelta(days=1), in days
TimePerTick == 1
\* WORLD_STATE_VERSION
WorldStateVersion == 1
\* seed: int = 42
DefaultSeed == 42

VARIABLES
    \* ---- EventBus fields
    policy,        \* _backpressure_strategy
    workerCount,   \* _worker_count
    busRunning,    \* _running
    queue,         \* _queue: the queued (event_type, event_data) pairs, oldest first
    unfinished,    \* _queue._unfinished_tasks (what join() waits on)
    subscribers,   \* _subscribers: key -> list of handlers
    history,       \* _event_history
    stats,         \* _stats
    workers,       \* _workers: one record per worker task
    putters,       \* publish calls suspended in queue.put (policy "block")
    stopPc,        \* where a call of EventBus.stop is
    \* ---- observations of the bus
    pubLog,        \* one entry per publish call: the event, what publish returned,
                   \* and the parts of the event it wrote to the log
    stopAt,        \* the number of publish calls made before stop was called (-1: not called)
    dispatched,    \* the dequeued events, in the order the workers took them
    delivered,     \* one entry per handler invocation: <<handler, event id>>
    raisedLog,     \* the handler invocations that raised: <<handler, event id>>
    \* ---- the engines
    deps,          \* engine.dependencies: engine name -> set of names
    priority,      \* engine.priority: engine name -> integer
    \* ---- SimulationOrchestrator fields
    engines,       \* self.engines: the registered engines, in registration order
    initialized,   \* self._initialized
    world,         \* self.state: the WorldState, or NoWorld
    init,          \* the call of initialize: where it is, its locals, what it did
    scheduler,     \* self.scheduler: the TickScheduler, or NoScheduler
    stopTask,      \* the call of SimulationOrchestrator.stop: where it is, what it did
    \* ---- the tasks that tick
    loop,          \* the task running orchestrator.start, i.e. TickScheduler.start
    ff,            \* the call of fast_forward
    \* ---- observations of the engines
    calls,         \* engine name -> number of calls of its tick
    completed,     \* number of ticks that ran to their end
    lateTicks,     \* the engines whose tick was called after their shutdown
    \* ---- WorldState persistence and lazy partitions
    sa,            \* a WorldState object
    sb,            \* a second WorldState object
    snap,          \* a StateSnapshot, or NoSnapshot
    out,           \* what the last persistence operation was given and returned
    loaders,       \* _lazy_loaders: the partitions with a registered loader
    loaded,        \* _loaded_partitions
    getters,       \* the calls of get_engine_state: task -> where it is
    loads,         \* partition -> loader invocations since it last left the loaded set
    \* ---- DeterministicRandom
    rng,           \* run -> the run's _deterministic_rng and what was asked of it
    \* ---- every TickScheduler of an orchestrator that is started more than once
    schedulers,    \* the TickScheduler objects start has constructed, oldest first
    startCalls,    \* one entry per call of SimulationOrchestrator.start
    \* ---- observations of get_event_history
    histOut,       \* what the last call of get_event_history was given and returned
    \* ---- CircuitBreaker
    breaker,       \* the fields of a CircuitBreaker
    clock,         \* time.time(), in seconds since the breaker was constructed
    cbCalls,       \* task -> where its call of CircuitBreaker.call is, and how the last ended
    \* ---- RetryWithBackoff
    retry,         \* a call of RetryWithBackoff.call: its arguments, locals and outcome
    \* ---- TaskQueue
    taskQueue,     \* the fields of a TaskQueue: _running, _queue, _tasks, and the puts that wait
    tqTasks,       \* the Task objects enqueue has created, in the order of their creation
    tqWorkers      \* _workers: one record per worker task

busVars == <<policy, workerCount, busRunning, queue, unfinished, subscribers,
             history, stats, workers, putters, stopPc, pubLog, stopAt, dispatched, delivered,
             raisedLog>>

orchVars == <<deps, priority, engines, initialized, world, init>>

tickVars == <<scheduler, stopTask, loop, ff, calls, completed, lateTicks>>

lifeVars == <<schedulers, startCalls>>

\* the objects outside the engine: they share no state with it
breakerVars == <<breaker, clock, cbCalls>>

taskQueueVars == <<taskQueue, tqTasks, tqWorkers>>

libVars == <<lifeVars, histOut, breakerVars, retry, taskQueueVars>>

\* the persistence, the lazy partitions and the random generators
engineVars == <<sa, sb, snap, out, loaders, loaded, getters, loads, rng>>

stateVars == <<sa, sb, snap, out, loaders, loaded, getters, loads, rng, libVars>>

nonBusVars == <<orchVars, tickVars, stateVars>>

vars == <<busVars, orchVars, tickVars, stateVars>>

(***************************************************************************)
(* EventBus                                                                *)
(***************************************************************************)
Range(s) == {s[i] : i \in 1..Len(s)}

\* EventBus.__init__, but for _running and _workers
BusFields(p, wc) ==
    /\ policy = p
    /\ workerCount = wc
    /\ queue = <<>>
    /\ unfinished = 0
    /\ subscribers = [k \in SubKeys |-> <<>>]
    /\ history = <<>>
    /\ stats = [published |-> 0, processed |-> 0, dropped |-> 0, errors |-> 0]
    /\ putters = <<>>
    /\ stopPc = "idle"
    /\ pubLog = <<>>
    /\ stopAt = -1
    /\ dispatched = <<>>
    /\ delivered = <<>>
    /\ raisedLog = <<>>

\* EventBus.__init__
BusNew(p, wc) ==
    /\ BusFields(p, wc)
    /\ busRunning = FALSE
    /\ workers = <<>>

NewWorker == [pc |-> "loop", ev |-> NoEvent, todo |-> <<>>]

\* EventBus.start: a second start of a running bus returns at once
BusStartEffect ==
    IF busRunning
    THEN UNCHANGED <<busRunning, workers>>
    ELSE /\ busRunning' = TRUE
         /\ workers' = workers \o [i \in 1..workerCount |-> NewWorker]

WildcardFirst(subs, t) == subs[Wildcard] \o subs[t]

\* the handlers _process_event calls for an event of type t: those of the
\* literal type, then those of the wildcard
HandlersFor(subs, t) == subs[t] \o subs[Wildcard]

HistoryKeepOldest(h, ev) == IF Len(h) >= MaxHistory THEN h ELSE Append(h, ev)

\* _event_history.append(event), then pop(0) beyond max_history
HistoryAppend(h, ev) ==
    LET h2 == Append(h, ev)
    IN  IF Len(h2) > MaxHistory THEN Tail(h2) ELSE h2

\* queue.task_done(): join() is released when the count reaches zero
TaskDone ==
    /\ unfinished' = unfinished - 1
    /\ stopPc' = IF stopPc = "join" /\ unfinished = 1 THEN "joined" ELSE stopPc

\* the worker's `while self._running` test, made before each wait on the queue
AfterLoopTest == IF busRunning THEN "get" ELSE "exited"

\* _worker, lines 86-88 once _process_event has returned, and the loop test
WorkerFinished(w) ==
    /\ workers' = [workers EXCEPT ![w] = [pc |-> AfterLoopTest, ev |-> NoEvent, todo |-> <<>>]]
    /\ stats' = [stats EXCEPT !.processed = @ + 1]
    /\ TaskDone

\* EventBus.start
BusStart ==
    /\ stopPc = "idle"
    /\ BusStartEffect
    /\ UNCHANGED <<policy, workerCount, queue, unfinished, subscribers, history, stats,
                   putters, stopPc, pubLog, dispatched, delivered, stopAt, raisedLog, nonBusVars>>

\* _worker: the `while self._running` test, when the task first runs and
\* when the wait on an empty queue has timed out (`continue`)
WorkerLoopTest(w) ==
    /\ \/ workers[w].pc = "loop"
       \/ workers[w].pc = "get" /\ queue = <<>> /\ ~busRunning
    /\ workers' = [workers EXCEPT ![w].pc = AfterLoopTest]
    /\ UNCHANGED <<policy, workerCount, busRunning, queue, unfinished, subscribers,
                   history, stats, putters, stopPc, pubLog, dispatched, delivered, stopAt, raisedLog, nonBusVars>>

\* _worker: queue.get() returns an event; _process_event stores it in the
\* history and fixes the list of handlers to call
WorkerGet(w) ==
    /\ workers[w].pc = "get"
    /\ queue # <<>>
    /\ LET ev == Head(queue)
           todo == HandlersFor(subscribers, ev.type)
       IN  /\ queue' = Tail(queue)
           /\ history' = HistoryAppend(history, ev)
           /\ dispatched' = Append(dispatched, ev)
           /\ IF todo = <<>>
              THEN WorkerFinished(w)
              ELSE /\ workers' = [workers EXCEPT ![w] = [pc |-> "dispatch", ev |-> ev, todo |-> todo]]
                   /\ UNCHANGED <<stats, unfinished, stopPc>>
    /\ UNCHANGED <<policy, workerCount, busRunning, subscribers, putters, pubLog, delivered, stopAt, raisedLog, nonBusVars>>

\* _process_event: the handler at the head of the list was called and is
\* over; the loop goes on with the handlers in rest
AfterHandler(w, rest) ==
    /\ delivered' = Append(delivered, <<Head(workers[w].todo), workers[w].ev.id>>)
    /\ IF rest = <<>>
       THEN WorkerFinished(w)
       ELSE /\ workers' = [workers EXCEPT ![w].todo = rest]
            /\ UNCHANGED <<stats, unfinished, stopPc>>
    /\ UNCHANGED <<policy, workerCount, busRunning, queue, subscribers, history,
                   putters, pubLog, dispatched, stopAt, nonBusVars>>

\* _process_event: the next handler is called and returns
WorkerHandler(w) ==
    /\ workers[w].pc = "dispatch"
    /\ AfterHandler(w, Tail(workers[w].todo))
    /\ UNCHANGED raisedLog

AbortHandlers(todo) == <<>>

\* _process_event, `except Exception`: the error is logged and the `for`
\* loop goes on with the handlers that follow
RestAfterRaise(todo) == Tail(todo)

\* _process_event: the next handler is called and raises an Exception
WorkerHandlerRaises(w) ==
    /\ workers[w].pc = "dispatch"
    /\ Len(raisedLog) < MaxRaises
    /\ raisedLog' = Append(raisedLog, <<Head(workers[w].todo), workers[w].ev.id>>)
    /\ AfterHandler(w, RestAfterRaise(workers[w].todo))

\* worker.cancel() for every worker: CancelledError ends the worker where it waits
CancelWorkers == [w \in DOMAIN workers |-> [pc |-> "exited", ev |-> NoEvent, todo |-> <<>>]]

\* EventBus.stop up to its first suspension: join() returns at once when
\* nothing is unfinished
BusStopEffect ==
    /\ busRunning' = FALSE
    /\ stopAt' = Len(pubLog)
    /\ IF unfinished = 0
       THEN /\ workers' = CancelWorkers
            /\ stopPc' = "gather"
       ELSE /\ stopPc' = "join"
            /\ UNCHANGED workers
    /\ UNCHANGED <<policy, workerCount, queue, unfinished, subscribers, history, stats,
                   putters, pubLog, dispatched, delivered, raisedLog>>

\* EventBus.stop, called on the bus directly
BusStopCall ==
    /\ stopPc = "idle"
    /\ BusStopEffect
    /\ UNCHANGED nonBusVars

\* EventBus.stop: join() has returned
BusStopCancel ==
    /\ stopPc = "joined"
    /\ workers' = CancelWorkers
    /\ stopPc' = "gather"
    /\ UNCHANGED <<policy, workerCount, busRunning, queue, unfinished, subscribers,
                   history, stats, putters, pubLog, dispatched, delivered, stopAt, raisedLog, nonBusVars>>

\* EventBus.stop: gather() has returned
BusStopReturn ==
    /\ stopPc = "gather"
    /\ workers' = <<>>
    /\ stopPc' = "done"
    /\ UNCHANGED <<policy, workerCount, busRunning, queue, unfinished, subscribers,
                   history, stats, putters, pubLog, dispatched, delivered, stopAt, raisedLog, nonBusVars>>

NextEvent(t) == [id |-> Len(pubLog) + 1, type |-> t]

EnqueueFront(ev) ==
    /\ queue' = <<ev>> \o queue
    /\ unfinished' = unfinished + 1

\* queue.put_nowait
Enqueue(ev) ==
    /\ queue' = Append(queue, ev)
    /\ unfinished' = unfinished + 1

\* queue.full()
QueueFull == Len(queue) >= MaxQueueSize

CountPublishedOnly(s) == [s EXCEPT !.published = @ + 1]

\* publish, lines 136 and 145: the counters of a publish that met a full queue
CountRejected(s) == [s EXCEPT !.published = @ + 1, !.dropped = @ + 1]

\* publish, lines 148, 159 and 163: the parts of the event that the message
\* written to the log holds (the f-strings format event_type only)
LoggedOnReject == {"type"}

\* EventBus.publish
Publish(t) ==
    /\ Len(pubLog) < MaxPublish
    /\ LET ev == NextEvent(t)
       IN  IF ~QueueFull
           THEN /\ Enqueue(ev)
                /\ stats' = [stats EXCEPT !.published = @ + 1]
                /\ pubLog' = Append(pubLog, [ev |-> ev, result |-> "true", logged |-> {}])
                /\ UNCHANGED putters
           ELSE /\ stats' = CountRejected(stats)
                /\ IF policy = "block"
                   THEN /\ putters' = Append(putters, ev)
                        /\ pubLog' = Append(pubLog, [ev |-> ev, result |-> "waiting",
                                                     logged |-> {}])
                   ELSE /\ pubLog' = Append(pubLog, [ev |-> ev, result |-> "false",
                                                     logged |-> LoggedOnReject])
                        /\ UNCHANGED putters
                /\ UNCHANGED <<queue, unfinished>>
    /\ UNCHANGED <<policy, workerCount, busRunning, subscribers, history, workers,
                   stopPc, dispatched, delivered, stopAt, raisedLog, nonBusVars>>

\* publish, policy "block": queue.put returns within the timeout
PutterResume ==
    /\ putters # <<>>
    /\ ~QueueFull
    /\ LET ev == Head(putters)
       IN  /\ Enqueue(ev)
           /\ pubLog' = [pubLog EXCEPT ![ev.id].result = "true"]
    /\ putters' = Tail(putters)
    /\ UNCHANGED <<policy, workerCount, busRunning, subscribers, history, stats, workers,
                   stopPc, dispatched, delivered, stopAt, raisedLog, nonBusVars>>

TimeoutIgnored == "true"

\* publish, lines 158-160: what publish returns on asyncio.TimeoutError
TimeoutResult == "false"

\* publish, policy "block": the wait for space times out
PutterTimeout ==
    /\ putters # <<>>
    /\ LET ev == Head(putters)
       IN  pubLog' = [pubLog EXCEPT ![ev.id].result = TimeoutResult,
                                    ![ev.id].logged = LoggedOnReject]
    /\ putters' = Tail(putters)
    /\ UNCHANGED <<policy, workerCount, busRunning, queue, unfinished, subscribers,
                   history, stats, workers, stopPc, dispatched, delivered, stopAt, raisedLog, nonBusVars>>

SubscriptionCount == Len(subscribers["a"]) + Len(subscribers["b"]) + Len(subscribers[Wildcard])

\* callers subscribe and unsubscribe before the first event is published
SetupPhase == pubLog = <<>>

\* EventBus.subscribe
Subscribe(k, h) ==
    /\ SetupPhase
    /\ SubscriptionCount < MaxSubscribe
    /\ subscribers' = [subscribers EXCEPT ![k] = Append(@, h)]
    /\ UNCHANGED <<policy, workerCount, busRunning, queue, unfinished, history, stats,
                   workers, putters, stopPc, pubLog, dispatched, delivered, stopAt, raisedLog, nonBusVars>>

\* list.remove: the first occurrence goes
RemoveFirst(s, x) ==
    LET i == CHOOSE j \in 1..Len(s) : s[j] = x /\ \A m \in 1..(j - 1) : s[m] # x
    IN  SubSeq(s, 1, i - 1) \o SubSeq(s, i + 1, Len(s))

\* EventBus.unsubscribe
Unsubscribe(k, h) ==
    /\ SetupPhase
    /\ h \in Range(subscribers[k])
    /\ subscribers' = [subscribers EXCEPT ![k] = RemoveFirst(@, h)]
    /\ UNCHANGED <<policy, workerCount, busRunning, queue, unfinished, history, stats,
                   workers, putters, stopPc, pubLog, dispatched, delivered, stopAt, raisedLog, nonBusVars>>

(***************************************************************************)
(* WorldState and StateSnapshot                                            *)
(***************************************************************************)
\* no WorldState object
NoState == [state_version |-> -1]

\* no StateSnapshot object
NoSnapshot == [exists |-> FALSE, state |-> "-", compressed_data |-> <<>>, taken |-> NoState]

\* no persistence operation was made
NoOutput == [op |-> "none"]

\* the partition keys engines use
Partitions == {"p", "q"}

\* the tasks that call get_engine_state
Getters == {"g1", "g2"}

\* a task that is not inside get_engine_state
IdleGetter == [pc |-> "idle", partition |-> "-"]

\* no partition has a loader and no task is inside get_engine_state
LazyIdle ==
    /\ loaders = {}
    /\ loaded = {}
    /\ getters = [g \in Getters |-> IdleGetter]
    /\ loads = [p \in Partitions |-> 0]

\* the runs (processes) of the simulation that are compared
Runs == {"r1", "r2"}

\* gauss_next = None, and a state that was not captured
None == -1

\* _deterministic_rng = None (line 64), and nothing was asked of it
NoRng == [seed |-> None, s |-> 0, gauss_next |-> None, ops |-> <<>>, results |-> <<>>,
          saved |-> [s |-> None, gauss_next |-> None]]

\* no run has seeded its generator
RngIdle == rng = [r \in Runs |-> NoRng]

\* start was never called
LifeIdle ==
    /\ schedulers = <<>>
    /\ startCalls = <<>>

\* nothing was done with the objects outside the engine
\* the tasks that call CircuitBreaker.call
Callers == {"c1", "c2"}

\* a task that has not called CircuitBreaker.call
IdleCaller == [pc |-> "idle", n |-> 0, outcome |-> "none"]

\* no CircuitBreaker was constructed
NoBreaker == [state |-> "none"]

BreakerIdle ==
    /\ breaker = NoBreaker
    /\ clock = 0
    /\ cbCalls = [c \in Callers |-> IdleCaller]

\* RetryWithBackoff.call was not called
NoRetry == [pc |-> "idle"]

\* no TaskQueue was constructed
NoTaskQueue == [running |-> FALSE, max_workers |-> 0]

TaskQueueIdle ==
    /\ taskQueue = NoTaskQueue
    /\ tqTasks = <<>>
    /\ tqWorkers = <<>>

LibIdle ==
    /\ LifeIdle
    /\ histOut = NoOutput
    /\ BreakerIdle
    /\ retry = NoRetry
    /\ TaskQueueIdle

\* no WorldState is being saved, restored or lazily loaded, and no run has
\* a generator
PersistIdle ==
    /\ sa = NoState
    /\ sb = NoState
    /\ snap = NoSnapshot
    /\ out = NoOutput
    /\ LazyIdle
    /\ RngIdle

\* nothing but the bus and the orchestrator is in use
StateIdle ==
    /\ PersistIdle
    /\ LibIdle

lazyVars == <<loaders, loaded, getters, loads>>

\* Values carry their Python type: <<"datetime", n>> is the n-th instant,
\* <<"uuid", n>> the n-th UUID, <<"str", n>> the text Python writes for the
\* n-th instant, UUID or label, <<"int", n>> an integer payload, and
\* <<"tuple", n>>, <<"list", n>> a tuple and a list with the same items
Dt(n) == <<"datetime", n>>

Uuid(n) == <<"uuid", n>>

Text(n) == <<"str", n>>

\* datetime.isoformat()
IsoFormat(t) == Text(t[2])

\* datetime.fromisoformat(text)
FromIsoFormat(x) == Dt(x[2])

\* str(x): a str is returned as it is
Str(x) == Text(x[2])

\* datetime.now(): later than every instant of the inputs
Now == Dt(9)

\* the keys of engine_states
EngineKeys == {"A", "B"}

\* the payloads engines store
Payloads == {<<"int", 1>>, <<"tuple", 1>>}

\* the dictionaries from engine names to payloads
EngineStateMaps == UNION {[K -> Payloads] : K \in SUBSET EngineKeys}

\* the WorldState objects the operations are applied to: every field has
\* the type it is declared with
WorldStates ==
    [state_version : {WorldStateVersion},
     current_time : {Dt(0), Dt(1)},
     scenario_id : {Text(10)},
     timeline_id : {Uuid(20)},
     era : {Text(30), Text(31)},
     current_location : {Text(40), Text(41)},
     engine_states : EngineStateMaps,
     tick_count : {0, 1},
     seed : {DefaultSeed},
     created_at : {Dt(0)},
     updated_at : {Dt(0)}]

\* d[k] = v
Put(d, k, v) == [x \in DOMAIN d \cup {k} |-> IF x = k THEN v ELSE d[x]]

\* d.get(k, default)
Get(d, k, default) == IF k \in DOMAIN d THEN d[k] ELSE default

\* del d[k]
Del(d, k) == [x \in DOMAIN d \ {k} |-> d[x]]

\* WorldState.to_dict
ToDict(s) ==
    [state_version |-> s.state_version,
     current_time |-> IF s.current_time[1] = "datetime"
                      THEN IsoFormat(s.current_time) ELSE Str(s.current_time),
     scenario_id |-> Str(s.scenario_id),
     timeline_id |-> Str(s.timeline_id),
     era |-> Str(s.era),
     current_location |-> Str(s.current_location),
     engine_states |-> s.engine_states,
     tick_count |-> s.tick_count,
     seed |-> s.seed,
     created_at |-> IsoFormat(s.created_at),
     updated_at |-> IsoFormat(s.updated_at)]

\* WorldState.migrate_state: the loop from version `current` on
RECURSIVE MigrateState(_, _, _)
MigrateState(data, current, to_version) ==
    IF current >= to_version THEN data
    ELSE IF current = 0
         THEN MigrateState(IF "state_version" \in DOMAIN data THEN data
                           ELSE Put(data, "state_version", 1),
                           1, to_version)
         ELSE MigrateState(Put(data, "state_version", current + 1), current + 1, to_version)

\* WorldState.from_dict; the NewType constructors return their argument
FromDict(payload) ==
    LET stored_version == Get(payload, "state_version", 0)
        migrated == IF stored_version < WorldStateVersion
                    THEN MigrateState(payload, stored_version, WorldStateVersion)
                    ELSE payload
        data == IF "state_version" \in DOMAIN migrated THEN migrated
                ELSE Put(migrated, "state_version", WorldStateVersion)
    IN  [state_version |-> data.state_version,
         current_time |-> FromIsoFormat(data.current_time),
         scenario_id |-> data.scenario_id,
         timeline_id |-> data.timeline_id,
         era |-> data.era,
         current_location |-> data.current_location,
         engine_states |-> Get(data, "engine_states", <<>>),
         tick_count |-> Get(data, "tick_count", 0),
         seed |-> Get(data, "seed", DefaultSeed),
         created_at |-> FromIsoFormat(Get(data, "created_at", IsoFormat(Now))),
         updated_at |-> FromIsoFormat(Get(data, "updated_at", IsoFormat(Now)))]

\* json.loads(json.dumps(v)) for a payload: a tuple comes back as a list
JsonValue(v) == IF v[1] = "tuple" THEN <<"list", v[2]>> ELSE v

\* json.loads(json.dumps(d)) for the dictionary of to_dict
JsonRoundTrip(d) ==
    [d EXCEPT !.engine_states = [k \in DOMAIN @ |-> JsonValue(@[k])]]

\* WorldState.to_compressed: gzip of the JSON text; gzip.decompress gives the
\* text back, so the bytes are written as the dictionary the text parses to
ToCompressed(s) == <<"gzip", JsonRoundTrip(ToDict(s))>>

\* WorldState.from_compressed
FromCompressed(bytes) == FromDict(bytes[2])

\* the top-level fields create_diff compares
DiffedFields == {"current_time", "current_location", "tick_count"}

\* WorldState.create_diff
CreateDiff(self, previous_state) ==
    LET engine_diffs ==
            LET changed == {k \in DOMAIN self.engine_states :
                              \/ k \notin DOMAIN previous_state.engine_states
                              \/ self.engine_states[k] # previous_state.engine_states[k]}
            IN  [k \in changed |-> self.engine_states[k]]
        keys == {f \in DiffedFields : self[f] # previous_state[f]}
                    \cup (IF DOMAIN engine_diffs # {} THEN {"engine_states"} ELSE {})
    IN  [k \in keys |->
            CASE k = "current_time" ->
                    IF self.current_time[1] = "datetime"
                    THEN IsoFormat(self.current_time) ELSE Str(self.current_time)
              [] k = "current_location" -> Str(self.current_location)
              [] k = "tick_count" -> self.tick_count
              [] k = "engine_states" -> engine_diffs]

\* WorldState.apply_diff: the target after the call
ApplyDiff(diff, target) ==
    LET t1 == IF "current_time" \in DOMAIN diff
              THEN [target EXCEPT !.current_time = FromIsoFormat(diff.current_time)]
              ELSE target
        t2 == IF "current_location" \in DOMAIN diff
              THEN [t1 EXCEPT !.current_location = diff.current_location]
              ELSE t1
        t3 == IF "tick_count" \in DOMAIN diff
              THEN [t2 EXCEPT !.tick_count = diff.tick_count]
              ELSE t2
        t4 == IF "engine_states" \in DOMAIN diff
              THEN [t3 EXCEPT !.engine_states =
                       [k \in DOMAIN @ \cup DOMAIN diff.engine_states |->
                           IF k \in DOMAIN diff.engine_states
                           THEN diff.engine_states[k] ELSE @[k]]]
              ELSE t3
    IN  [t4 EXCEPT !.updated_at = Now]

\* the rest of the program is left alone by the persistence operations
persistFrame == <<busVars, orchVars, tickVars, lazyVars, rng, libVars>>

\* WorldState.from_dict(sa.to_dict())
RoundTripDict ==
    /\ out.op = "none"
    /\ out' = [op |-> "from_dict", arg |-> sa, val |-> FromDict(ToDict(sa))]
    /\ UNCHANGED <<sa, sb, snap, persistFrame>>

\* WorldState.from_compressed(sa.to_compressed())
RoundTripCompressed ==
    /\ out.op = "none"
    /\ out' = [op |-> "from_compressed", arg |-> sa, val |-> FromCompressed(ToCompressed(sa))]
    /\ UNCHANGED <<sa, sb, snap, persistFrame>>

\* copy = a copy of sb; copy.apply_diff(sa.create_diff(sb))
DiffPatch ==
    /\ out.op = "none"
    /\ out' = [op |-> "apply_diff", a |-> sa, b |-> sb,
               val |-> ApplyDiff(CreateDiff(sa, sb), sb)]
    /\ UNCHANGED <<sa, sb, snap, persistFrame>>

\* the ways the repository offers to copy a WorldState: the dictionary of
\* to_dict holds self.engine_states itself (line 114) and from_dict stores
\* that very dictionary in the new object (line 145), so the copy shares its
\* engine_states with the original; the JSON text of to_compressed shares
\* nothing
CopyKinds == {"from_dict", "from_compressed"}

\* a copy of s made in the way kind
CopyOf(s, kind) ==
    IF kind = "from_dict" THEN FromDict(ToDict(s)) ELSE FromCompressed(ToCompressed(s))

\* sb.apply_diff(sa.create_diff(sb), base_state = a copy of sb): the writes
\* to target.engine_states[...] land in the one dictionary that a copy made
\* by from_dict shares with sb
ApplyDiffTo(kind) ==
    /\ out.op = "none"
    /\ LET diff == CreateDiff(sa, sb)
           target == CopyOf(sb, kind)
           after == ApplyDiff(diff, target)
       IN  /\ out' = [op |-> "apply_to", kind |-> kind, diff |-> diff,
                      self |-> sb, target |-> target, val |-> after]
           /\ sb' = IF kind = "from_dict"
                    THEN [sb EXCEPT !.engine_states = after.engine_states]
                    ELSE sb
    /\ UNCHANGED <<sa, snap, persistFrame>>

\* the versions a stored payload can carry under "state_version"
StoredVersions == 0..WorldStateVersion

\* the dictionary of sa as a writer of version v stored it
StoredPayload(v) == Put(ToDict(sa), "state_version", v)

\* the dictionary of sa as a writer that knew no versions stored it
UnversionedPayload == Del(ToDict(sa), "state_version")

\* WorldState.from_dict(payload) for a stored payload with a version
LoadPayload(v) ==
    /\ out.op = "none"
    /\ out' = [op |-> "load", versioned |-> TRUE, version |-> v,
               arg |-> StoredPayload(v), val |-> FromDict(StoredPayload(v))]
    /\ UNCHANGED <<sa, sb, snap, persistFrame>>

\* WorldState.from_dict(payload) for a stored payload without a version
LoadUnversioned ==
    /\ out.op = "none"
    /\ out' = [op |-> "load", versioned |-> FALSE, version |-> 0,
               arg |-> UnversionedPayload, val |-> FromDict(UnversionedPayload)]
    /\ UNCHANGED <<sa, sb, snap, persistFrame>>

\* WorldState.migrate_state(data, from_version, to_version) for the payload
\* a writer of version from_version stored
MigrateStored(from_version, to_version) ==
    /\ out.op = "none"
    /\ from_version < to_version
    /\ out' = [op |-> "migrate", versioned |-> TRUE, from |-> from_version,
               to |-> to_version,
               val |-> MigrateState(StoredPayload(from_version), from_version, to_version)]
    /\ UNCHANGED <<sa, sb, snap, persistFrame>>

\* WorldState.migrate_state(data, 0, to_version) for a payload without a version
MigrateUnversioned(to_version) ==
    /\ out.op = "none"
    /\ out' = [op |-> "migrate", versioned |-> FALSE, from |-> 0, to |-> to_version,
               val |-> MigrateState(UnversionedPayload, 0, to_version)]
    /\ UNCHANGED <<sa, sb, snap, persistFrame>>

\* StateSnapshot.create(sa): __post_init__ compresses the state
SnapshotCreate ==
    /\ ~snap.exists
    /\ out.op = "none"
    /\ snap' = [exists |-> TRUE, state |-> "sa", compressed_data |-> ToCompressed(sa),
                taken |-> sa]
    /\ UNCHANGED <<sa, sb, out, persistFrame>>

\* StateSnapshot.restore: a new object from the compressed data, or the
\* snapshotted object itself when there is no compressed data
Restore ==
    /\ snap.exists
    /\ out.op \in {"none", "restore"}
    /\ out' = IF snap.compressed_data # <<>>
              THEN [op |-> "restore", ref |-> "new",
                    ret |-> FromCompressed(snap.compressed_data),
                    val |-> FromCompressed(snap.compressed_data),
                    earlier |-> IF out.op = "restore" THEN {out.ret} ELSE {}]
              ELSE [op |-> "restore", ref |-> snap.state, ret |-> sa, val |-> sa,
                    earlier |-> IF out.op = "restore" THEN {out.ret} ELSE {}]
    /\ UNCHANGED <<sa, sb, snap, persistFrame>>

\* the scheduler ticks the snapshotted state: _tick, line 76
MutateOriginal ==
    /\ snap.exists
    /\ sa = snap.taken
    /\ sa' = [sa EXCEPT !.tick_count = @ + 1]
    /\ out' = IF out.op = "restore" /\ out.ref = "sa" THEN [out EXCEPT !.val = sa'] ELSE out
    /\ UNCHANGED <<sb, snap, persistFrame>>

\* the caller changes the state restore returned
MutateRestored ==
    /\ out.op = "restore"
    /\ out.val = out.ret
    /\ out' = [out EXCEPT !.val.tick_count = @ + 1]
    /\ sa' = IF out.ref = "sa" THEN out'.val ELSE sa
    /\ UNCHANGED <<sb, snap, persistFrame>>

\* the persistence operations leave the lazy loading alone and the reverse
lazyFrame == <<busVars, orchVars, tickVars, sa, sb, snap, out, rng, libVars>>

\* WorldState.register_lazy_loader(p, loader)
RegisterLazyLoader(p) ==
    /\ p \notin loaders
    /\ loaders' = loaders \cup {p}
    /\ UNCHANGED <<loaded, getters, loads, lazyFrame>>

\* get_engine_state(name, p) up to its first suspension: the task awaits the
\* loader when p is not loaded and has a loader, and returns at once otherwise;
\* loads counts the invocations of p's loader since p last left the loaded set
GetEngineState(g, p) ==
    /\ getters[g].pc = "idle"
    /\ IF p \notin loaded /\ p \in loaders
       THEN /\ getters' = [getters EXCEPT ![g] = [pc |-> "loading", partition |-> p]]
            /\ loads' = [loads EXCEPT ![p] = @ + 1]
       ELSE UNCHANGED <<getters, loads>>
    /\ UNCHANGED <<loaders, loaded, lazyFrame>>

\* the loader returns: the partition joins the loaded set and the call returns
LoaderReturns(g) ==
    /\ getters[g].pc = "loading"
    /\ loaded' = loaded \cup {getters[g].partition}
    /\ getters' = [getters EXCEPT ![g] = IdleGetter]
    /\ UNCHANGED <<loaders, loads, lazyFrame>>

\* the loader raises: the exception leaves get_engine_state, nothing was
\* loaded and the invocation is not counted
LoaderRaises(g) ==
    /\ getters[g].pc = "loading"
    /\ loads' = [loads EXCEPT ![getters[g].partition] = @ - 1]
    /\ getters' = [getters EXCEPT ![g] = IdleGetter]
    /\ UNCHANGED <<loaders, loaded, lazyFrame>>

\* WorldState.unload_partition(p)
UnloadPartition(p) ==
    /\ IF p \in loaded
       THEN /\ loaded' = loaded \ {p}
            /\ loads' = [loads EXCEPT ![p] = 0]
       ELSE UNCHANGED <<loaded, loads>>
    /\ UNCHANGED <<loaders, getters, lazyFrame>>

(***************************************************************************)
(* DeterministicRandom                                                     *)
(***************************************************************************)
\* the generator of random.Random is a deterministic function of its state;
\* its states are counted modulo Modulus
Modulus == 16

\* the seeds the runs are given
Seeds == {1, 2}

\* the draws: random() stands for the draws that take one value from the
\* generator (random, uniform, randint, choice), gauss for the one that
\* keeps a second value for the next call
Draws == {"random", "gauss"}

\* the generator's next internal state
Twist(s) == (5 * s + 3) % Modulus

\* random.Random(seed): the internal state a seed gives
Seeded(seed) == (7 * seed) % Modulus

\* the two values gauss makes of two values drawn from the generator
GaussPair(x, y) == <<(x + 2 * y) % Modulus, (3 * x + y + 1) % Modulus>>

\* the rest of the program is left alone by the generator
rngFrame == <<busVars, orchVars, tickVars, sa, sb, snap, out, lazyVars, libVars>>

\* set_rng(seed): a new DeterministicRandom(seed) becomes the run's generator
SetRng(r, seed) ==
    /\ rng[r].seed = None
    /\ rng' = [rng EXCEPT ![r] = [NoRng EXCEPT !.seed = seed, !.s = Seeded(seed)]]
    /\ UNCHANGED rngFrame

\* the generator g after one more operation op that returned result
Logged(g, op, result) ==
    [g EXCEPT !.ops = Append(@, op), !.results = Append(@, result)]

\* get_rng().random(): self._rng.random()
DrawRandom(r) ==
    /\ rng[r].seed # None
    /\ Len(rng[r].ops) < MaxDraws
    /\ rng' = [rng EXCEPT ![r] = Logged([@ EXCEPT !.s = Twist(@)], "random", Twist(@.s))]
    /\ UNCHANGED rngFrame

\* get_rng().gauss(mu, sigma): self._rng.gauss returns the value kept by the
\* call before, if there is one, and otherwise draws two values, returns the
\* first of the pair made of them and keeps the second
DrawGauss(r) ==
    /\ rng[r].seed # None
    /\ Len(rng[r].ops) < MaxDraws
    /\ LET g == rng[r]
           x == Twist(g.s)
           y == Twist(x)
       IN  rng' = [rng EXCEPT ![r] =
                     IF g.gauss_next # None
                     THEN Logged([g EXCEPT !.gauss_next = None], "gauss", g.gauss_next)
                     ELSE Logged([g EXCEPT !.s = y, !.gauss_next = GaussPair(x, y)[2]],
                                 "gauss", GaussPair(x, y)[1])]
    /\ UNCHANGED rngFrame

RestoredKeepsGauss(g, state) == [g EXCEPT !.s = state.s]

\* self._rng.getstate(): the internal state and gauss_next
Captured(g) == [s |-> g.s, gauss_next |-> g.gauss_next]

\* self._rng.setstate(state)
Restored(g, state) == [g EXCEPT !.s = state.s, !.gauss_next = state.gauss_next]

\* get_rng().getstate(); the caller keeps the state
GetState(r) ==
    /\ rng[r].seed # None
    /\ Len(rng[r].ops) < MaxDraws
    /\ rng[r].saved.s = None
    /\ rng' = [rng EXCEPT ![r] = Logged([@ EXCEPT !.saved = Captured(rng[r])], "getstate", 0)]
    /\ UNCHANGED rngFrame

\* get_rng().setstate(state) with the state the caller kept
SetState(r) ==
    /\ rng[r].seed # None
    /\ Len(rng[r].ops) < MaxDraws
    /\ rng[r].saved.s # None
    /\ "setstate" \notin Range(rng[r].ops)
    /\ rng' = [rng EXCEPT ![r] = Logged(Restored(@, @.saved), "setstate", 0)]
    /\ UNCHANGED rngFrame

(***************************************************************************)
(* SimulationOrchestrator: construction, register_engine, initialize       *)
(***************************************************************************)
NoWorld == [id |-> 0, tick_count |-> 0, current_time |-> 0]

\* WorldState(current_time=initial_time, ...): time is counted in days from
\* the initial time; id tells one WorldState object from another
NewWorld(n) == [id |-> n, tick_count |-> 0, current_time |-> 0]

IdleInit == [pc |-> "idle", calls |-> 0, remaining |-> <<>>, pass |-> <<>>, done |-> {},
             progress |-> FALSE, cur |-> NoEngine, order |-> <<>>, missing |-> <<>>,
             registered |-> <<>>, wasInitialized |-> FALSE, wasRunning |-> FALSE]

\* self.scheduler = None
NoScheduler == [exists |-> FALSE, engines |-> <<>>, tick_rate |-> 0,
                running |-> FALSE, paused |-> FALSE]

IdleStop == [pc |-> "idle", i |-> 0, down |-> <<>>]

IdleLoop == [pc |-> "none", i |-> 0, seen |-> <<>>, raised |-> {}]

IdleFF == [pc |-> "idle", i |-> 0, seen |-> <<>>, n |-> 0, left |-> 0, saved |-> 0,
           start |-> 0, retCount |-> 0, retRate |-> 0]

\* SimulationOrchestrator.__init__; no task exists and no engine was called
OrchNew ==
    /\ engines = <<>>
    /\ initialized = FALSE
    /\ world = NoWorld
    /\ init = IdleInit
    /\ scheduler = NoScheduler
    /\ stopTask = IdleStop
    /\ loop = IdleLoop
    /\ ff = IdleFF
    /\ calls = [e \in EngineNames |-> 0]
    /\ completed = 0
    /\ lateTicks = {}

\* the bus of the orchestrator is left alone, but for _running and _workers
busRest == <<policy, workerCount, queue, unfinished, subscribers, history, stats,
             putters, stopPc, pubLog, dispatched, delivered, stopAt, raisedLog>>

\* engine.name
NameOf(o) == IF o = "A2" THEN "A" ELSE IF o = "B2" THEN "B" ELSE o

\* SimulationOrchestrator.register_engine: `engine in self.engines` compares
\* engine objects; an object that is in the list is not appended again
RegisterEngine(e) ==
    /\ engines' = IF e \in Range(engines) THEN engines ELSE Append(engines, e)
    /\ UNCHANGED <<stateVars, deps, priority, initialized, world, init, busVars, tickVars>>

InitRunning == init.pc \in {"scan", "await"}

\* initialize, lines 65-85: a fresh WorldState, initialized = set(),
\* remaining = list(self.engines), and the first pass begins
InitCall ==
    /\ ~InitRunning
    /\ init.calls < MaxInitCalls
    /\ world' = NewWorld(init.calls + 1)
    /\ init' = [pc |-> "scan", calls |-> init.calls + 1, remaining |-> engines,
                pass |-> engines, done |-> {}, progress |-> FALSE, cur |-> NoEngine,
                order |-> <<>>, missing |-> <<>>, registered |-> engines,
                wasInitialized |-> initialized, wasRunning |-> busRunning]
    /\ UNCHANGED <<stateVars, deps, priority, engines, initialized, busVars, tickVars>>

DepsIgnored(e, done) == TRUE

\* all(dep in initialized for dep in deps)
DepsSatisfied(e, done) == deps[e] \subseteq done

\* initialize, lines 89-94: the next engine of the pass; engine.initialize is
\* called when its dependencies are satisfied
InitScan ==
    /\ init.pc = "scan"
    /\ init.pass # <<>>
    /\ LET e == Head(init.pass)
       IN  init' = IF DepsSatisfied(e, init.done)
                   THEN [init EXCEPT !.pc = "await", !.cur = e, !.pass = Tail(@)]
                   ELSE [init EXCEPT !.pass = Tail(@)]
    /\ UNCHANGED <<stateVars, deps, priority, engines, initialized, world, busVars, tickVars>>

\* remaining.remove(engine)
Without(s, e) == SelectSeq(s, LAMBDA x : x # e)

\* initialize, lines 95-98: engine.initialize has returned
InitEngineReturns ==
    /\ init.pc = "await"
    /\ init' = [init EXCEPT !.pc = "scan", !.cur = NoEngine,
                            !.done = @ \cup {init.cur},
                            !.remaining = Without(@, init.cur),
                            !.progress = TRUE,
                            !.order = Append(@, init.cur)]
    /\ UNCHANGED <<stateVars, deps, priority, engines, initialized, world, busVars, tickVars>>

InitEngineRaisesAfterStart ==
    /\ init.pc = "await"
    /\ init' = [init EXCEPT !.pc = "raised"]
    /\ BusStartEffect
    /\ initialized' = TRUE
    /\ UNCHANGED <<stateVars, deps, priority, engines, world, busRest, tickVars>>

\* initialize, lines 99-103: engine.initialize has raised, and initialize re-raises
InitEngineRaises ==
    /\ init.pc = "await"
    /\ init' = [init EXCEPT !.pc = "raised"]
    /\ UNCHANGED <<stateVars, deps, priority, engines, initialized, world, busVars, tickVars>>

MissingAll(rem) == engines

\* missing = [e.name for e in remaining]
Missing(rem) == rem

\* initialize, lines 87-88 and 105-123: a pass is over.  With engines left and
\* progress another pass begins; with engines left and no progress
\* RuntimeError names them; with none left the bus is started and the
\* orchestrator is marked initialized
InitPassEnd ==
    /\ init.pc = "scan"
    /\ init.pass = <<>>
    /\ IF init.remaining = <<>>
       THEN /\ BusStartEffect
            /\ initialized' = TRUE
            /\ init' = [init EXCEPT !.pc = "ok"]
       ELSE /\ init' = IF init.progress
                       THEN [init EXCEPT !.pass = init.remaining, !.progress = FALSE]
                       ELSE [init EXCEPT !.pc = "unresolved", !.missing = Missing(init.remaining)]
            /\ UNCHANGED <<initialized, busRunning, workers>>
    /\ UNCHANGED <<stateVars, deps, priority, engines, world, busRest, tickVars>>

InitStep ==
    \/ InitScan
    \/ InitEngineReturns
    \/ InitEngineRaises
    \/ InitPassEnd

(***************************************************************************)
(* TickScheduler, and SimulationOrchestrator.start, stop, pause, resume    *)
(* and fast_forward                                                        *)
(***************************************************************************)
Unsorted(s) == s

\* the place of e in a list sorted by priority: after every engine whose
\* priority is not greater
RECURSIVE Insert(_, _)
Insert(s, e) ==
    IF s = <<>> THEN <<e>>
    ELSE IF priority[Head(s)] <= priority[e]
         THEN <<Head(s)>> \o Insert(Tail(s), e)
         ELSE <<e>> \o s

RECURSIVE InsertionSort(_)
InsertionSort(s) ==
    IF s = <<>> THEN <<>>
    ELSE Insert(InsertionSort(SubSeq(s, 1, Len(s) - 1)), s[Len(s)])

\* sorted(self.engines, key=priority): ascending, and stable
SortByPriority(s) == InsertionSort(s)

\* reversed(self.engines)
Reverse(s) == [i \in 1..Len(s) |-> s[Len(s) + 1 - i]]

\* `await engine.tick(...)` is entered
Invoke(e) ==
    /\ calls' = [calls EXCEPT ![e] = @ + 1]
    /\ lateTicks' = IF e \in Range(stopTask.down) THEN lateTicks \cup {e} ELSE lateTicks

CountTwice(k) == [world EXCEPT !.current_time = @ + k * TimePerTick, !.tick_count = @ + 2 * k]

\* _tick, lines 69-76, k times over
Advance(k) == [world EXCEPT !.current_time = @ + k * TimePerTick, !.tick_count = @ + k]

\* ticks that fast_forward has yet to begin
FFPending == IF ff.pc = "inEngine" THEN ff.left - 1 ELSE 0

\* the loop of TickScheduler.start begins a tick over the engines engs: the
\* time and the counter advance and the first engine is entered
LoopBegins(engs) ==
    /\ world' = Advance(1)
    /\ IF engs = <<>>
       THEN /\ loop' = [loop EXCEPT !.pc = "sleep", !.i = 0, !.seen = <<"tick">>]
            /\ completed' = completed + 1
            /\ UNCHANGED <<calls, lateTicks>>
       ELSE /\ loop' = [loop EXCEPT !.pc = "inEngine", !.i = 1, !.seen = <<"tick", engs[1]>>]
            /\ Invoke(engs[1])
            /\ UNCHANGED completed

\* asyncio.create_task(orchestrator.start(...)) in start_simulation
OrchStartCall ==
    /\ loop.pc = "none"
    /\ stopTask.pc = "idle"
    /\ loop' = [loop EXCEPT !.pc = "created"]
    /\ UNCHANGED <<busVars, orchVars, stateVars, scheduler, stopTask, ff, calls, completed, lateTicks>>

\* the task runs orchestrator.start: the checks, the sort, the new
\* TickScheduler, and TickScheduler.start up to its first suspension
OrchStartRun ==
    /\ loop.pc = "created"
    /\ IF ~initialized \/ world = NoWorld
       THEN /\ loop' = [loop EXCEPT !.pc = "failed"]
            /\ UNCHANGED <<scheduler, world, calls, completed, lateTicks>>
       ELSE /\ world.tick_count + FFPending < MaxTicks
            /\ scheduler' = [exists |-> TRUE, engines |-> SortByPriority(engines),
                             tick_rate |-> DefaultTickRate, running |-> TRUE,
                             paused |-> FALSE]
            /\ LoopBegins(SortByPriority(engines))
    /\ UNCHANGED <<busVars, stateVars, deps, priority, engines, initialized, init, stopTask, ff>>

LoopIgnoresStop == TRUE

\* start, line 45: `while self._running`
WhileRunning == scheduler.running

LoopIgnoresPause == TRUE

\* start, line 46: `if not self._paused`
IfNotPaused == ~scheduler.paused

\* TickScheduler.start: the sleep is over and `while self._running` fails
LoopExit ==
    /\ loop.pc = "sleep"
    /\ ~WhileRunning
    /\ loop' = [loop EXCEPT !.pc = "exited"]
    /\ UNCHANGED <<busVars, orchVars, stateVars, scheduler, stopTask, ff, calls, completed, lateTicks>>

\* TickScheduler.start: the sleep is over and the next tick begins (a paused
\* scheduler goes back to sleep)
LoopTick ==
    /\ loop.pc = "sleep"
    /\ WhileRunning
    /\ IfNotPaused
    /\ world.tick_count + FFPending < MaxTicks
    /\ LoopBegins(scheduler.engines)
    /\ UNCHANGED <<busVars, stateVars, deps, priority, engines, initialized, init, scheduler,
                   stopTask, ff>>

\* _tick in the loop: engine.tick has returned or raised (the exception is
\* logged); the next engine is entered, or the tick is over and the loop sleeps
LoopEngineReturns ==
    /\ loop.pc = "inEngine"
    /\ IF loop.i < Len(scheduler.engines)
       THEN /\ loop' = [loop EXCEPT !.i = @ + 1,
                                    !.seen = Append(@, scheduler.engines[loop.i + 1])]
            /\ Invoke(scheduler.engines[loop.i + 1])
            /\ UNCHANGED completed
       ELSE /\ loop' = [loop EXCEPT !.pc = "sleep"]
            /\ completed' = completed + 1
            /\ UNCHANGED <<calls, lateTicks>>
    /\ UNCHANGED <<busVars, orchVars, stateVars, scheduler, stopTask, ff>>

SkipRest(i) == Len(scheduler.engines) + 1

\* _tick, lines 83-84: the exception is caught inside the `for` loop, which
\* goes on with the engine after the one at place i
NextAfterRaise(i) == i + 1

\* _tick in the loop: engine.tick has raised an Exception; it is logged, the
\* next engine is entered, or the tick is over and the loop sleeps
LoopEngineRaises ==
    /\ loop.pc = "inEngine"
    /\ LET j == NextAfterRaise(loop.i)
           r == loop.raised \cup {<<world.tick_count, scheduler.engines[loop.i]>>}
       IN  IF j <= Len(scheduler.engines)
           THEN /\ loop' = [loop EXCEPT !.i = j, !.raised = r,
                                        !.seen = Append(@, scheduler.engines[j])]
                /\ Invoke(scheduler.engines[j])
                /\ UNCHANGED completed
           ELSE /\ loop' = [loop EXCEPT !.pc = "sleep", !.raised = r]
                /\ completed' = completed + 1
                /\ UNCHANGED <<calls, lateTicks>>
    /\ UNCHANGED <<busVars, orchVars, stateVars, scheduler, stopTask, ff>>

\* fast_forward, lines 101-105, with `left` ticks to go after `fin` ticks
\* have just ended: the next tick begins, or tick_rate is restored and the
\* call returns
FFContinue(f, left, fin) ==
    IF left = 0 \/ scheduler.engines = <<>>
    THEN /\ world' = Advance(left)
         /\ completed' = completed + fin + left
         /\ scheduler' = [scheduler EXCEPT !.tick_rate = f.saved]
         /\ ff' = [f EXCEPT !.pc = "returned", !.left = 0,
                            !.retCount = world.tick_count + left,
                            !.retRate = f.saved]
         /\ UNCHANGED <<calls, lateTicks>>
    ELSE /\ world' = Advance(1)
         /\ completed' = completed + fin
         /\ scheduler' = [scheduler EXCEPT !.tick_rate = 0]
         /\ ff' = [f EXCEPT !.pc = "inEngine", !.left = left, !.i = 1,
                            !.seen = <<"tick", scheduler.engines[1]>>]
         /\ Invoke(scheduler.engines[1])

\* SimulationOrchestrator.fast_forward(n) with a scheduler, up to its first suspension
FastForward(n) ==
    /\ scheduler.exists
    /\ ff.pc = "idle"
    /\ world.tick_count + n <= MaxTicks
    /\ FFContinue([IdleFF EXCEPT !.n = n, !.saved = scheduler.tick_rate,
                                 !.start = world.tick_count], n, 0)
    /\ UNCHANGED <<busVars, stateVars, deps, priority, engines, initialized, init, stopTask, loop>>

\* _tick in fast_forward: engine.tick has returned or raised
FFEngineReturns ==
    /\ ff.pc = "inEngine"
    /\ IF ff.i < Len(scheduler.engines)
       THEN /\ ff' = [ff EXCEPT !.i = @ + 1,
                                !.seen = Append(@, scheduler.engines[ff.i + 1])]
            /\ Invoke(scheduler.engines[ff.i + 1])
            /\ UNCHANGED <<world, completed, scheduler>>
       ELSE FFContinue(ff, ff.left - 1, 1)
    /\ UNCHANGED <<busVars, stateVars, deps, priority, engines, initialized, init, stopTask, loop>>

\* SimulationOrchestrator.pause
Pause ==
    /\ scheduler.exists
    /\ ~scheduler.paused
    /\ scheduler' = [scheduler EXCEPT !.paused = TRUE]
    /\ UNCHANGED <<busVars, orchVars, stateVars, stopTask, loop, ff, calls, completed, lateTicks>>

\* SimulationOrchestrator.resume
Resume ==
    /\ scheduler.exists
    /\ scheduler.paused
    /\ scheduler' = [scheduler EXCEPT !.paused = FALSE]
    /\ UNCHANGED <<busVars, orchVars, stateVars, stopTask, loop, ff, calls, completed, lateTicks>>

\* the instants jump_to_time is given, in days from the initial time
JumpTargets == {0}

\* TickScheduler.jump_to_time(t): only current_time is set
JumpToTime(t) ==
    /\ scheduler.exists
    /\ world.current_time # t
    /\ world' = [world EXCEPT !.current_time = t]
    /\ UNCHANGED <<busVars, stateVars, deps, priority, engines, initialized, init, scheduler,
                   stopTask, loop, ff, calls, completed, lateTicks>>

\* SimulationOrchestrator.stop, lines 169-173: scheduler.stop() clears the
\* flag of the scheduler, if there is one, and event_bus.stop() runs up to its
\* first suspension
OrchStopCall ==
    /\ stopTask.pc = "idle"
    /\ stopPc = "idle"
    /\ scheduler' = IF scheduler.exists THEN [scheduler EXCEPT !.running = FALSE]
                    ELSE scheduler
    /\ BusStopEffect
    /\ stopTask' = [stopTask EXCEPT !.pc = "bus"]
    /\ UNCHANGED <<orchVars, stateVars, loop, ff, calls, completed, lateTicks>>

\* the call of stop goes on to the engine after the first i engines of
\* reversed(self.engines): its shutdown is entered, or stop returns
ShutdownNext(i) ==
    IF i < Len(engines)
    THEN [pc |-> "shutdown", i |-> i + 1, down |-> Append(stopTask.down, Reverse(engines)[i + 1])]
    ELSE [stopTask EXCEPT !.pc = "done"]

\* stop, lines 173-178: event_bus.stop() has returned (its gather is over)
\* and the first shutdown is entered
OrchBusStopped ==
    /\ stopTask.pc = "bus"
    /\ stopPc = "gather"
    /\ workers' = <<>>
    /\ stopPc' = "done"
    /\ stopTask' = ShutdownNext(0)
    /\ UNCHANGED <<policy, workerCount, busRunning, queue, unfinished, subscribers,
                   history, stats, putters, pubLog, dispatched, delivered, stopAt, raisedLog>>
    /\ UNCHANGED <<orchVars, stateVars, scheduler, loop, ff, calls, completed, lateTicks>>

\* stop, lines 176-182: engine.shutdown has returned or raised (the exception
\* is logged), and the next shutdown is entered or stop returns
OrchShutdownReturns ==
    /\ stopTask.pc = "shutdown"
    /\ stopTask' = ShutdownNext(stopTask.i)
    /\ UNCHANGED <<busVars, orchVars, stateVars, scheduler, loop, ff, calls, completed, lateTicks>>

\* the declared dependencies: any names but the engine's own
DepChoices == [EngineNames -> SUBSET (EngineNames \cup {Unregistered})]

InitOrch ==
    /\ BusNew("drop", 1)
    /\ OrchNew
    /\ StateIdle
    /\ deps \in {d \in DepChoices : \A e \in EngineNames : e \notin d[e]}
    /\ priority = [e \in EngineNames |-> 0]

NextOrchInit ==
    \/ \E e \in EngineNames : RegisterEngine(e)
    \/ InitCall
    \/ InitStep

\* register_engine and initialize, for every declaration of dependencies
SpecInit == InitOrch /\ [][NextOrchInit]_vars

\* a new orchestrator
InitReg ==
    /\ BusNew("drop", 1)
    /\ OrchNew
    /\ StateIdle
    /\ deps = [e \in EngineNames |-> {}]
    /\ priority = [e \in EngineNames |-> 0]

NextReg == \E e \in EngineObjects : RegisterEngine(e)

\* register_engine, called with any engine objects in any order
SpecReg == InitReg /\ [][NextReg]_vars

\* a bus constructed with any policy and any worker count
InitBus ==
    /\ \E p \in Policies, wc \in WorkerCounts : BusNew(p, wc)
    /\ OrchNew
    /\ StateIdle
    /\ deps = [e \in EngineNames |-> {}]
    /\ priority = [e \in EngineNames |-> 0]

\* a bus constructed with worker_count = 1
InitBus1 == InitBus /\ workerCount = 1

WorkerStep ==
    \/ \E w \in DOMAIN workers : WorkerLoopTest(w)
    \/ \E w \in DOMAIN workers : WorkerGet(w)
    \/ \E w \in DOMAIN workers : WorkerHandler(w)

BusStopStep ==
    \/ BusStopCancel
    \/ BusStopReturn

PublishStep ==
    \/ \E t \in EventTypes : Publish(t)
    \/ PutterResume
    \/ PutterTimeout

SubscribeStep ==
    \/ \E k \in SubKeys, h \in Handlers : Subscribe(k, h)
    \/ \E k \in SubKeys, h \in Handlers : Unsubscribe(k, h)

NextBus ==
    \/ BusStart
    \/ BusStopCall
    \/ WorkerStep
    \/ BusStopStep
    \/ PublishStep
    \/ SubscribeStep

SpecBus == InitBus /\ [][NextBus]_vars

SpecBus1 == InitBus1 /\ [][NextBus]_vars

\* a bus with one worker and handlers that can raise
NextBusErr ==
    \/ NextBus
    \/ \E w \in DOMAIN workers : WorkerHandlerRaises(w)

SpecBusErr == InitBus1 /\ [][NextBusErr]_vars

\* a bus with one worker: a put that waits for space gets it or times out
FairSpecBus1 ==
    /\ SpecBus1
    /\ WF_vars(PutterResume \/ PutterTimeout)

\* the event loop runs every task that is ready, and every timeout expires
FairSpecBus ==
    /\ SpecBus
    /\ WF_vars(WorkerStep)
    /\ WF_vars(BusStopStep)
    /\ WF_vars(PutterResume \/ PutterTimeout)

\* two WorldState objects with any field values, and nothing done yet
InitState ==
    /\ BusNew("drop", 1)
    /\ OrchNew
    /\ deps = [e \in EngineNames |-> {}]
    /\ priority = [e \in EngineNames |-> 0]
    /\ sa \in WorldStates
    /\ sb \in WorldStates
    /\ snap = NoSnapshot
    /\ out = NoOutput
    /\ LazyIdle
    /\ RngIdle
    /\ LibIdle

NextState ==
    \/ RoundTripDict
    \/ RoundTripCompressed
    \/ DiffPatch
    \/ \E kind \in CopyKinds : ApplyDiffTo(kind)
    \/ \E v \in StoredVersions : LoadPayload(v)
    \/ LoadUnversioned
    \/ \E f \in 0..(MaxVersion - 1), t \in 1..MaxVersion : MigrateStored(f, t)
    \/ \E t \in 1..MaxVersion : MigrateUnversioned(t)
    \/ SnapshotCreate
    \/ Restore
    \/ MutateOriginal
    \/ MutateRestored

\* the persistence operations of WorldState and StateSnapshot
SpecState == InitState /\ [][NextState]_vars

\* a WorldState with no loader registered and no partition loaded
InitLazy ==
    /\ BusNew("drop", 1)
    /\ OrchNew
    /\ deps = [e \in EngineNames |-> {}]
    /\ priority = [e \in EngineNames |-> 0]
    /\ StateIdle

NextLazy ==
    \/ \E p \in Partitions : RegisterLazyLoader(p)
    \/ \E g \in Getters, p \in Partitions : GetEngineState(g, p)
    \/ \E g \in Getters : LoaderReturns(g)
    \/ \E g \in Getters : LoaderRaises(g)
    \/ \E p \in Partitions : UnloadPartition(p)

\* the lazy loading of partitions by concurrent tasks
SpecLazy == InitLazy /\ [][NextLazy]_vars

\* two runs of the simulation, each with its own generator
InitRng ==
    /\ BusNew("drop", 1)
    /\ OrchNew
    /\ deps = [e \in EngineNames |-> {}]
    /\ priority = [e \in EngineNames |-> 0]
    /\ StateIdle

NextRng ==
    \/ \E r \in Runs, seed \in Seeds : SetRng(r, seed)
    \/ \E r \in Runs : DrawRandom(r)
    \/ \E r \in Runs : DrawGauss(r)
    \/ \E r \in Runs : GetState(r)
    \/ \E r \in Runs : SetState(r)

\* the random generators of two runs
SpecRng == InitRng /\ [][NextRng]_vars

(***************************************************************************)
(* The running simulation                                                  *)
(***************************************************************************)
\* the orders in which the engines of S can have been registered
Orders(S) == {s \in [1..Cardinality(S) -> S] : Range(s) = S}

\* initialize has returned for an orchestrator with the engines of
\* SimEngines, registered in any order with any priorities and no
\* dependencies: the bus runs, its workers have not run yet, and start was
\* not called
InitSim ==
    /\ BusFields("drop", 1)
    /\ busRunning = TRUE
    /\ workers = [i \in 1..1 |-> NewWorker]
    /\ deps = [e \in EngineNames |-> {}]
    /\ priority \in {p \in [EngineNames -> Priorities] :
                        \A e \in EngineNames \ SimEngines : p[e] = 0}
    /\ engines \in Orders(SimEngines)
    /\ initialized = TRUE
    /\ world = NewWorld(1)
    /\ init = [IdleInit EXCEPT !.pc = "ok", !.calls = 1, !.done = SimEngines,
                               !.progress = TRUE, !.order = engines,
                               !.registered = engines]
    /\ scheduler = NoScheduler
    /\ stopTask = IdleStop
    /\ loop = IdleLoop
    /\ ff = IdleFF
    /\ calls = [e \in EngineNames |-> 0]
    /\ completed = 0
    /\ lateTicks = {}
    /\ StateIdle

LoopStep ==
    \/ OrchStartRun
    \/ LoopExit
    \/ LoopTick
    \/ LoopEngineReturns

StopStep ==
    \/ OrchBusStopped
    \/ OrchShutdownReturns
    \/ BusStopCancel

SimWorkerStep ==
    \/ \E w \in DOMAIN workers : WorkerLoopTest(w)
    \/ \E w \in DOMAIN workers : WorkerGet(w)

NextSim ==
    \/ OrchStartCall
    \/ LoopStep
    \/ \E n \in 0..MaxFastForward : FastForward(n)
    \/ FFEngineReturns
    \/ Pause
    \/ Resume
    \/ OrchStopCall
    \/ StopStep
    \/ SimWorkerStep
    \/ Publish("a")

SpecSim == InitSim /\ [][NextSim]_vars

\* the tick loop alone, with engines whose tick can raise
NextTick ==
    \/ OrchStartCall
    \/ OrchStartRun
    \/ LoopTick
    \/ LoopEngineReturns
    \/ LoopEngineRaises
    \/ Pause
    \/ Resume

SpecTick == InitSim /\ [][NextTick]_vars

SchedLoopStep ==
    \/ OrchStartRun
    \/ LoopExit
    \/ LoopTick
    \/ LoopEngineReturns

SchedStopStep ==
    \/ OrchBusStopped
    \/ OrchShutdownReturns

\* every operation of the TickScheduler
NextSched ==
    \/ OrchStartCall
    \/ SchedLoopStep
    \/ \E n \in 0..MaxFastForward : FastForward(n)
    \/ FFEngineReturns
    \/ Pause
    \/ Resume
    \/ \E t \in JumpTargets : JumpToTime(t)
    \/ OrchStopCall
    \/ SchedStopStep

SpecSched == InitSim /\ [][NextSched]_vars

\* the event loop runs every task that is ready; an engine's tick or shutdown
\* returns in the end
FairSpecSched ==
    /\ SpecSched
    /\ WF_vars(SchedLoopStep)
    /\ WF_vars(FFEngineReturns)
    /\ WF_vars(SchedStopStep)

\* the event loop runs every task that is ready; an engine's tick or shutdown
\* returns in the end
FairSpecSim ==
    /\ SpecSim
    /\ WF_vars(LoopStep)
    /\ WF_vars(FFEngineReturns)
    /\ WF_vars(StopStep)
    /\ WF_vars(SimWorkerStep)

(***************************************************************************)
(* SimulationOrchestrator called more than once: initialize, start, stop   *)
(***************************************************************************)
\* TickScheduler(engines=sorted_engines, state=self.state, tick_rate=tick_rate),
\* lines 33-38; state is the identity of the WorldState object it was given
NewScheduler(engs, state) ==
    [engines |-> engs, state |-> state, running |-> FALSE, paused |-> FALSE,
     pc |-> "new", i |-> 0, ticks |-> 0]

\* self.scheduler: the TickScheduler of the last start that got that far
CurrentScheduler == Len(schedulers)

\* ticks begun by all the schedulers together
LifeTicks == LET RECURSIVE Sum(_)
                 Sum(n) == IF n = 0 THEN 0 ELSE schedulers[n].ticks + Sum(n - 1)
             IN  Sum(Len(schedulers))

\* _tick of the scheduler s, lines 69-82: the time and the counter of the
\* WorldState it holds advance, and the first engine is entered
TickBegins(s) ==
    /\ world' = IF s.state = world.id THEN Advance(1) ELSE world
    /\ IF s.engines = <<>>
       THEN /\ completed' = completed + 1
            /\ UNCHANGED <<calls, lateTicks>>
       ELSE /\ Invoke(s.engines[1])
            /\ UNCHANGED completed

\* the scheduler s once its tick has begun
TickEntered(s) ==
    IF s.engines = <<>>
    THEN [s EXCEPT !.pc = "sleep", !.i = 0, !.ticks = @ + 1]
    ELSE [s EXCEPT !.pc = "inEngine", !.i = 1, !.ticks = @ + 1]

\* the most recent call of initialize: "idle" when there was none, "ok"
\* when it returned, "raised" or "unresolved" when it raised, else in progress
LastInitialize == init.pc

\* SimulationOrchestrator.stop was called
StopCalled == stopTask.pc # "idle"

\* SimulationOrchestrator.start, lines 144-148: the checks made before the
\* scheduler is constructed
StartRefused == ~initialized \/ world = NoWorld

\* SimulationOrchestrator.start up to its first suspension: the checks, the
\* sort, a new TickScheduler in self.scheduler, and TickScheduler.start, which
\* sets _running and enters the first tick
LifeStart ==
    /\ Len(startCalls) < MaxStarts
    /\ IF StartRefused
       THEN /\ startCalls' = Append(startCalls, [result |-> "raised",
                                                 initialize |-> LastInitialize,
                                                 afterStop |-> StopCalled])
            /\ UNCHANGED <<schedulers, scheduler, world, calls, completed, lateTicks>>
       ELSE /\ LifeTicks < MaxLifeTicks
            /\ startCalls' = Append(startCalls, [result |-> "ticking",
                                                 initialize |-> LastInitialize,
                                                 afterStop |-> StopCalled])
            /\ LET s == [NewScheduler(SortByPriority(engines), world.id)
                            EXCEPT !.running = TRUE]
               IN  /\ schedulers' = Append(schedulers, TickEntered(s))
                   /\ TickBegins(s)
            /\ scheduler' = [exists |-> TRUE, engines |-> SortByPriority(engines),
                             tick_rate |-> DefaultTickRate, running |-> TRUE,
                             paused |-> FALSE]
    /\ UNCHANGED <<busVars, deps, priority, engines, initialized, init, stopTask, loop, ff>>
    /\ UNCHANGED <<engineVars, histOut, breakerVars, retry, taskQueueVars>>

\* _tick of the scheduler k: engine.tick has returned or raised; the next
\* engine is entered, or the tick is over and the loop sleeps
LifeEngineReturns(k) ==
    /\ schedulers[k].pc = "inEngine"
    /\ LET s == schedulers[k]
       IN  IF s.i < Len(s.engines)
           THEN /\ schedulers' = [schedulers EXCEPT ![k].i = @ + 1]
                /\ Invoke(s.engines[s.i + 1])
                /\ UNCHANGED completed
           ELSE /\ schedulers' = [schedulers EXCEPT ![k].pc = "sleep"]
                /\ completed' = completed + 1
                /\ UNCHANGED <<calls, lateTicks>>
    /\ UNCHANGED <<busVars, orchVars, scheduler, stopTask, loop, ff, startCalls>>
    /\ UNCHANGED <<engineVars, histOut, breakerVars, retry, taskQueueVars>>

\* TickScheduler.start of the scheduler k, lines 45-48: the sleep is over,
\* `while self._running` holds and the next tick begins
LifeLoopTick(k) ==
    /\ schedulers[k].pc = "sleep"
    /\ schedulers[k].running
    /\ ~schedulers[k].paused
    /\ LifeTicks < MaxLifeTicks
    /\ schedulers' = [schedulers EXCEPT ![k] = TickEntered(@)]
    /\ TickBegins(schedulers[k])
    /\ UNCHANGED <<busVars, deps, priority, engines, initialized, init, scheduler, stopTask,
                   loop, ff, startCalls>>
    /\ UNCHANGED <<engineVars, histOut, breakerVars, retry, taskQueueVars>>

\* TickScheduler.start of the scheduler k, line 45: the sleep is over and
\* `while self._running` fails
LifeLoopExit(k) ==
    /\ schedulers[k].pc = "sleep"
    /\ ~schedulers[k].running
    /\ schedulers' = [schedulers EXCEPT ![k].pc = "exited"]
    /\ UNCHANGED <<busVars, orchVars, tickVars, startCalls>>
    /\ UNCHANGED <<engineVars, histOut, breakerVars, retry, taskQueueVars>>

\* SimulationOrchestrator.stop, lines 169-173: self.scheduler.stop() clears
\* the flag of the scheduler self.scheduler refers to, if there is one, and
\* event_bus.stop() runs up to its first suspension
LifeStopCall ==
    /\ stopTask.pc = "idle"
    /\ stopPc = "idle"
    /\ schedulers' = IF CurrentScheduler = 0 THEN schedulers
                     ELSE [schedulers EXCEPT ![CurrentScheduler].running = FALSE]
    /\ scheduler' = IF scheduler.exists THEN [scheduler EXCEPT !.running = FALSE]
                    ELSE scheduler
    /\ BusStopEffect
    /\ stopTask' = [stopTask EXCEPT !.pc = "bus"]
    /\ UNCHANGED <<orchVars, loop, ff, calls, completed, lateTicks, startCalls>>
    /\ UNCHANGED <<engineVars, histOut, breakerVars, retry, taskQueueVars>>

\* a new orchestrator with one engine registered
InitLife ==
    /\ BusNew("drop", 1)
    /\ OrchNew
    /\ StateIdle
    /\ deps = [e \in EngineNames |-> {}]
    /\ priority = [e \in EngineNames |-> 0]

LifeLoopStep ==
    \/ \E k \in DOMAIN schedulers : LifeEngineReturns(k)
    \/ \E k \in DOMAIN schedulers : LifeLoopTick(k)
    \/ \E k \in DOMAIN schedulers : LifeLoopExit(k)

NextLife ==
    \/ RegisterEngine("A")
    \/ InitCall
    \/ InitStep
    \/ LifeStart
    \/ LifeLoopStep
    \/ LifeStopCall
    \/ OrchBusStopped
    \/ OrchShutdownReturns

\* initialize, start and stop called on one orchestrator in any order
SpecLife == InitLife /\ [][NextLife]_vars

(***************************************************************************)
(* EventBus.get_event_history                                              *)
(***************************************************************************)
\* event_type=None
NoType == "None"

\* the event_type arguments
TypeFilters == EventTypes \cup {NoType}

\* the limit arguments
Limits == 0..MaxLimit

\* s[start:] of Python for a list s and an integer start: a negative start
\* counts from the end and a start beyond either end is clamped; -0 is 0
SliceFrom(s, start) ==
    LET from == IF start < 0
                THEN (IF Len(s) + start < 0 THEN 0 ELSE Len(s) + start)
                ELSE (IF start > Len(s) THEN Len(s) ELSE start)
    IN  SubSeq(s, from + 1, Len(s))

\* get_event_history, lines 213-214: a given event_type keeps the events of that type
Filtered(events, type) ==
    IF type # NoType THEN SelectSeq(events, LAMBDA e : e.type = type) ELSE events

\* get_event_history, lines 212-215
EventHistory(type, limit) == SliceFrom(Filtered(history, type), -limit)

\* EventBus.get_event_history(event_type, limit)
GetEventHistory(type, limit) ==
    /\ histOut = NoOutput
    /\ histOut' = [op |-> "get_event_history", event_type |-> type, limit |-> limit,
                   history |-> history, returned |-> EventHistory(type, limit)]
    /\ UNCHANGED <<busVars, orchVars, tickVars, engineVars, lifeVars, breakerVars, retry, taskQueueVars>>

\* a bus with one worker that drops on a full queue, and no subscriber
InitHist ==
    /\ BusNew("drop", 1)
    /\ OrchNew
    /\ StateIdle
    /\ deps = [e \in EngineNames |-> {}]
    /\ priority = [e \in EngineNames |-> 0]

NextHist ==
    \/ BusStart
    \/ \E t \in EventTypes : Publish(t)
    \/ \E w \in DOMAIN workers : WorkerLoopTest(w)
    \/ \E w \in DOMAIN workers : WorkerGet(w)
    \/ \E t \in TypeFilters, n \in Limits : GetEventHistory(t, n)

\* events are published and processed, and the history is asked for once
SpecHist == InitHist /\ [][NextHist]_vars

(***************************************************************************)
(* CircuitBreaker                                                          *)
(***************************************************************************)
\* CircuitState
CircuitStates == {"closed", "open", "half_open"}

\* the values given to failure_threshold, success_threshold, timeout and
\* half_open_timeout (the defaults are 5, 2, 60.0 and 30.0)
Thresholds == {1, 2}
Timeouts == {1, 2}
HalfOpenTimeouts == {1}

\* CircuitBreaker.__init__
BreakerNew(ft, st, t, hot) ==
    [failure_threshold |-> ft, success_threshold |-> st, timeout |-> t,
     half_open_timeout |-> hot, state |-> "closed", failure_count |-> 0,
     success_count |-> 0, last_failure_time |-> None, last_state_change |-> 0]

\* calls made of CircuitBreaker.call so far
CallsMade == LET RECURSIVE Sum(_)
                 Sum(S) == IF S = {} THEN 0
                           ELSE LET c == CHOOSE x \in S : TRUE
                                IN  cbCalls[c].n + Sum(S \ {c})
             IN  Sum(Callers)

TimeoutIgnoredByOpen(b) == TRUE

\* call, line 124: time.time() - self.last_state_change > self.timeout
TimeoutOver(b) == clock - b.last_state_change > b.timeout

\* call, line 134: time.time() - self.last_state_change > self.half_open_timeout
HalfOpenTimeoutOver(b) == clock - b.last_state_change > b.half_open_timeout

\* call, lines 122-139: the breaker after the block under the lock
Admitted(b) ==
    IF b.state = "open" /\ TimeoutOver(b)
    THEN [b EXCEPT !.state = "half_open", !.success_count = 0, !.last_state_change = clock]
    ELSE IF b.state = "half_open" /\ HalfOpenTimeoutOver(b)
         THEN [b EXCEPT !.state = "open", !.last_state_change = clock]
         ELSE b

\* call, lines 131 and 139: CircuitBreakerOpenError is raised
Rejected(b) ==
    \/ b.state = "open" /\ ~TimeoutOver(b)
    \/ b.state = "half_open" /\ HalfOpenTimeoutOver(b)

\* CircuitBreaker.call up to its first suspension: the block under the lock,
\* and either CircuitBreakerOpenError or the call of func
BreakerCall(c) ==
    /\ cbCalls[c].pc = "idle"
    /\ CallsMade < MaxBreakerCalls
    /\ breaker' = Admitted(breaker)
    /\ cbCalls' = [cbCalls EXCEPT ![c] =
                      IF Rejected(breaker)
                      THEN [pc |-> "idle", n |-> @.n + 1, outcome |-> "open_error"]
                      ELSE [pc |-> "inFunc", n |-> @.n + 1, outcome |-> "none"]]
    /\ UNCHANGED <<clock, busVars, orchVars, tickVars, engineVars, lifeVars, histOut, retry, taskQueueVars>>

\* _record_success
RecordSuccess(b) ==
    IF b.state = "half_open"
    THEN IF b.success_count + 1 >= b.success_threshold
         THEN [b EXCEPT !.state = "closed", !.failure_count = 0, !.success_count = 0,
                        !.last_state_change = clock]
         ELSE [b EXCEPT !.success_count = @ + 1]
    ELSE IF b.state = "closed"
         THEN [b EXCEPT !.failure_count = 0]
         ELSE b

ThresholdPassed(b) == b.failure_count > b.failure_threshold

\* _record_failure, line 178: self.failure_count >= self.failure_threshold
ThresholdReached(b) == b.failure_count >= b.failure_threshold

\* _record_failure
RecordFailure(b) ==
    LET f == [b EXCEPT !.failure_count = @ + 1, !.last_failure_time = clock]
    IN  IF f.state = "half_open"
        THEN [f EXCEPT !.state = "open", !.last_state_change = clock]
        ELSE IF f.state = "closed" /\ ThresholdReached(f)
             THEN [f EXCEPT !.state = "open", !.last_state_change = clock]
             ELSE f

\* call, lines 143-145: func has returned; the success is recorded and the
\* result returned
FuncReturns(c) ==
    /\ cbCalls[c].pc = "inFunc"
    /\ breaker' = RecordSuccess(breaker)
    /\ cbCalls' = [cbCalls EXCEPT ![c].pc = "idle", ![c].outcome = "returned"]
    /\ UNCHANGED <<clock, busVars, orchVars, tickVars, engineVars, lifeVars, histOut, retry, taskQueueVars>>

\* call, lines 146-148: func has raised an Exception; the failure is recorded
\* and the exception raised again
FuncRaises(c) ==
    /\ cbCalls[c].pc = "inFunc"
    /\ breaker' = RecordFailure(breaker)
    /\ cbCalls' = [cbCalls EXCEPT ![c].pc = "idle", ![c].outcome = "raised"]
    /\ UNCHANGED <<clock, busVars, orchVars, tickVars, engineVars, lifeVars, histOut, retry, taskQueueVars>>

\* a second passes
TimePasses ==
    /\ clock < MaxClock
    /\ clock' = clock + 1
    /\ UNCHANGED <<breaker, cbCalls, busVars, orchVars, tickVars, engineVars, lifeVars, histOut, retry, taskQueueVars>>

\* a new CircuitBreaker with any thresholds and timeouts, and no call made
InitBreaker ==
    /\ BusNew("drop", 1)
    /\ OrchNew
    /\ deps = [e \in EngineNames |-> {}]
    /\ priority = [e \in EngineNames |-> 0]
    /\ PersistIdle
    /\ LifeIdle
    /\ histOut = NoOutput
    /\ retry = NoRetry
    /\ TaskQueueIdle
    /\ breaker \in {BreakerNew(ft, st, t, hot) :
                       ft \in Thresholds, st \in Thresholds, t \in Timeouts,
                       hot \in HalfOpenTimeouts}
    /\ clock = 0
    /\ cbCalls = [c \in Callers |-> IdleCaller]

NextBreaker ==
    \/ \E c \in Callers : BreakerCall(c)
    \/ \E c \in Callers : FuncReturns(c)
    \/ \E c \in Callers : FuncRaises(c)
    \/ TimePasses

\* concurrent calls through one CircuitBreaker while time passes
SpecBreaker == InitBreaker /\ [][NextBreaker]_vars

(***************************************************************************)
(* RetryWithBackoff                                                        *)
(***************************************************************************)
\* the retry_on arguments: none, or a predicate that is False for the
\* exceptions of kind "fatal" and True for those of kind "transient"
RetryOnChoices == {"None", "predicate"}

\* the exceptions func raises; retry_on(e), when given, tells them apart
ErrorKinds == {"transient", "fatal"}

\* initial_delay = 1.0, exponential_base = 2.0, and a max_delay of 4 seconds
\* (the default is 60.0)
InitialDelay == 1
ExponentialBase == 2
MaxDelay == 4

RECURSIVE Power(_, _)
Power(b, n) == IF n = 0 THEN 1 ELSE b * Power(b, n - 1)

\* call, lines 258-261: min(initial_delay * exponential_base ** attempt, max_delay)
Delay(attempt) ==
    LET d == InitialDelay * Power(ExponentialBase, attempt)
    IN  IF d < MaxDelay THEN d ELSE MaxDelay

RetriesAnyway(r, kind) == FALSE

\* call, line 254: `retry_on and not retry_on(e)`
GivesUp(r, kind) == r.retry_on # "None" /\ kind = "fatal"

\* RetryWithBackoff(max_retries=mr).call(func, retry_on=ro) up to its first
\* suspension: attempt 0 enters func
RetryCall(mr, ro) ==
    /\ retry = NoRetry
    /\ retry' = [pc |-> "inFunc", max_retries |-> mr, retry_on |-> ro, attempt |-> 0,
                 invocations |-> 1, errors |-> <<>>, delays |-> <<>>,
                 returned |-> None, raised |-> None]
    /\ UNCHANGED <<busVars, orchVars, tickVars, engineVars, lifeVars, histOut, breakerVars, taskQueueVars>>

\* call, line 249: func has returned, and call returns its result (the
\* result of the n-th invocation is written n)
RetryFuncReturns ==
    /\ retry.pc = "inFunc"
    /\ retry' = [retry EXCEPT !.pc = "returned", !.returned = retry.invocations]
    /\ UNCHANGED <<busVars, orchVars, tickVars, engineVars, lifeVars, histOut, breakerVars, taskQueueVars>>

\* call, lines 250-268: func has raised an exception of the given kind (the
\* exception of the n-th invocation is written n); it is raised again at
\* once when retry_on refuses it or no retry is left, else call sleeps
RetryFuncRaises(kind) ==
    /\ retry.pc = "inFunc"
    /\ LET r == [retry EXCEPT !.errors = Append(@, kind)]
       IN  retry' = IF GivesUp(r, kind) \/ ~(r.attempt < r.max_retries)
                    THEN [r EXCEPT !.pc = "raised", !.raised = r.invocations]
                    ELSE [r EXCEPT !.pc = "sleep", !.delays = Append(@, Delay(r.attempt))]
    /\ UNCHANGED <<busVars, orchVars, tickVars, engineVars, lifeVars, histOut, breakerVars, taskQueueVars>>

\* call, lines 247-249 and 265: the sleep is over and the next attempt enters func
RetrySleepOver ==
    /\ retry.pc = "sleep"
    /\ retry' = [retry EXCEPT !.pc = "inFunc", !.attempt = @ + 1, !.invocations = @ + 1]
    /\ UNCHANGED <<busVars, orchVars, tickVars, engineVars, lifeVars, histOut, breakerVars, taskQueueVars>>

\* no call of RetryWithBackoff.call was made
InitRetry ==
    /\ BusNew("drop", 1)
    /\ OrchNew
    /\ StateIdle
    /\ deps = [e \in EngineNames |-> {}]
    /\ priority = [e \in EngineNames |-> 0]

NextRetry ==
    \/ \E mr \in 0..MaxRetries, ro \in RetryOnChoices : RetryCall(mr, ro)
    \/ RetryFuncReturns
    \/ \E kind \in ErrorKinds : RetryFuncRaises(kind)
    \/ RetrySleepOver

\* one call of RetryWithBackoff.call with a function that returns or raises at will
SpecRetry == InitRetry /\ [][NextRetry]_vars

(***************************************************************************)
(* TaskQueue                                                               *)
(***************************************************************************)
\* the values given to max_workers (the default is 4)
WorkerChoices == {1, 2}

\* the priority arguments of enqueue
TaskPriorities == {0, 1}

\* TaskQueue.__init__
TaskQueueNew(mw) ==
    [running |-> FALSE, max_workers |-> mw, max_queue_size |-> MaxTaskQueueSize,
     heap |-> <<>>, unfinished |-> 0, tasks |-> {}, putters |-> <<>>, errors |-> 0]

\* get_result was not called for the task
NotAsked == [kind |-> "none", value |-> None]

\* Task.__init__, for a task enqueued with priority p; `enqueue` tells how
\* the call of enqueue that made it has ended, `runs` counts the calls of
\* its func, `least` is the least priority queued when it was started and
\* `got` is what get_result gave for it
NewTask(p) ==
    [priority |-> p, status |-> "pending", result |-> None, error |-> None,
     enqueue |-> "waiting", runs |-> 0, least |-> None, got |-> NotAsked]

\* (priority, task) < (priority, task) for the tasks a and b of T: tuples are
\* compared by their first items that differ, and two Task objects have no
\* order, so equal priorities end in TypeError
Less(T, a, b) ==
    IF a = b THEN "False"
    ELSE IF T[a].priority # T[b].priority
         THEN (IF T[a].priority < T[b].priority THEN "True" ELSE "False")
         ELSE "TypeError"

\* the list h with the items at the places i and j (counted from 0) exchanged
Swap(h, i, j) == [h EXCEPT ![i + 1] = h[j + 1], ![j + 1] = h[i + 1]]

\* heapq's siftdown: the item at pos goes up while it is less than its
\* parent; a comparison that raises leaves the list as it is at that moment
RECURSIVE SiftDown(_, _, _, _)
SiftDown(T, h, startpos, pos) ==
    IF pos > startpos
    THEN LET parentpos == (pos - 1) \div 2
             cmp == Less(T, h[pos + 1], h[parentpos + 1])
         IN  IF cmp = "TypeError" THEN [heap |-> h, ok |-> FALSE]
             ELSE IF cmp = "False" THEN [heap |-> h, ok |-> TRUE]
             ELSE SiftDown(T, Swap(h, pos, parentpos), startpos, parentpos)
    ELSE [heap |-> h, ok |-> TRUE]

\* heapq's siftup: the item at pos goes down to a leaf, the smaller child
\* moving up at each level, and is then sifted back towards startpos
RECURSIVE SiftUp(_, _, _, _)
SiftUp(T, h, startpos, pos) ==
    IF pos < Len(h) \div 2
    THEN LET childpos == 2 * pos + 1
             cmp == IF childpos + 1 < Len(h)
                    THEN Less(T, h[childpos + 1], h[childpos + 2])
                    ELSE "True"
             child == IF cmp = "True" THEN childpos ELSE childpos + 1
         IN  IF cmp = "TypeError" THEN [heap |-> h, ok |-> FALSE]
             ELSE SiftUp(T, Swap(h, child, pos), startpos, child)
    ELSE SiftDown(T, h, startpos, pos)

\* PriorityQueue._put, heapq.heappush(self._queue, item): the item is
\* appended before it is sifted
HeapPush(T, h, item) == SiftDown(T, Append(h, item), 0, Len(h))

\* PriorityQueue._get, heapq.heappop(self._queue): the last item replaces
\* the first and is sifted; when a comparison raises, the first item is
\* in the list no more and is not returned
HeapPop(T, h) ==
    LET lastelt == h[Len(h)]
        rest == SubSeq(h, 1, Len(h) - 1)
    IN  IF rest = <<>>
        THEN [heap |-> <<>>, item |-> lastelt, ok |-> TRUE]
        ELSE LET r == SiftUp(T, [rest EXCEPT ![1] = lastelt], 0, 0)
             IN  [heap |-> r.heap, item |-> rest[1], ok |-> r.ok]

\* Queue.full()
TaskQueueFull == Len(taskQueue.heap) >= taskQueue.max_queue_size

\* enqueue, lines 155-158, once the queue has space: put_nowait pushes the
\* pair and counts it as unfinished, and enqueue registers the task and
\* returns its id; a TypeError of the push leaves enqueue at once
PutNowait(T, n) ==
    LET r == HeapPush(T, taskQueue.heap, n)
    IN  IF r.ok
        THEN /\ taskQueue' = [taskQueue EXCEPT !.heap = r.heap, !.unfinished = @ + 1,
                                               !.tasks = @ \cup {n},
                                               !.putters = SelectSeq(@, LAMBDA x : x # n)]
             /\ tqTasks' = [T EXCEPT ![n].enqueue = "returned"]
        ELSE /\ taskQueue' = [taskQueue EXCEPT !.heap = r.heap,
                                               !.putters = SelectSeq(@, LAMBDA x : x # n)]
             /\ tqTasks' = [T EXCEPT ![n].enqueue = "TypeError"]

\* TaskQueue.enqueue(func, priority=p) up to its first suspension: a new
\* Task, and `await self._queue.put(...)`, which waits while the queue is full
TQEnqueue(p) ==
    /\ Len(tqTasks) < MaxTasks
    /\ LET n == Len(tqTasks) + 1
           T == Append(tqTasks, NewTask(p))
       IN  IF TaskQueueFull
           THEN /\ tqTasks' = T
                /\ taskQueue' = [taskQueue EXCEPT !.putters = Append(@, n)]
           ELSE PutNowait(T, n)
    /\ UNCHANGED <<tqWorkers, busVars, orchVars, tickVars, engineVars, lifeVars, histOut,
                   breakerVars, retry>>

\* enqueue: the queue has space again and the put that waited longest goes on
TQPutResumes ==
    /\ taskQueue.putters # <<>>
    /\ ~TaskQueueFull
    /\ PutNowait(tqTasks, Head(taskQueue.putters))
    /\ UNCHANGED <<tqWorkers, busVars, orchVars, tickVars, engineVars, lifeVars, histOut,
                   breakerVars, retry>>

\* TaskQueue.start
TQStart ==
    /\ ~taskQueue.running
    /\ taskQueue' = [taskQueue EXCEPT !.running = TRUE]
    /\ tqWorkers' = tqWorkers \o [i \in 1..taskQueue.max_workers |-> [pc |-> "get", task |-> 0]]
    /\ UNCHANGED <<tqTasks, busVars, orchVars, tickVars, engineVars, lifeVars, histOut,
                   breakerVars, retry>>

\* the least priority among the queued tasks
LeastQueued == CHOOSE p \in TaskPriorities :
                  /\ \E k \in DOMAIN taskQueue.heap : tqTasks[taskQueue.heap[k]].priority = p
                  /\ \A k \in DOMAIN taskQueue.heap : tqTasks[taskQueue.heap[k]].priority >= p

\* _worker, lines 105-114: queue.get() returns a pair, the task is marked
\* RUNNING and its func is called; a TypeError of the pop is logged by the
\* worker (line 129), which goes back to the queue
TQWorkerGet(w) ==
    /\ tqWorkers[w].pc = "get"
    /\ taskQueue.heap # <<>>
    /\ LET r == HeapPop(tqTasks, taskQueue.heap)
       IN  IF r.ok
           THEN /\ taskQueue' = [taskQueue EXCEPT !.heap = r.heap]
                /\ tqTasks' = [tqTasks EXCEPT ![r.item].status = "running",
                                              ![r.item].runs = @ + 1,
                                              ![r.item].least = LeastQueued]
                /\ tqWorkers' = [tqWorkers EXCEPT ![w] = [pc |-> "run", task |-> r.item]]
           ELSE /\ taskQueue' = [taskQueue EXCEPT !.heap = r.heap, !.errors = @ + 1]
                /\ UNCHANGED <<tqTasks, tqWorkers>>
    /\ UNCHANGED <<busVars, orchVars, tickVars, engineVars, lifeVars, histOut, breakerVars, retry>>

\* _worker, lines 122-129: completed_at is set and task_done() called; when
\* nothing is counted as unfinished it raises ValueError, which the worker logs
TaskDoneCalled(q) ==
    IF q.unfinished <= 0
    THEN [q EXCEPT !.errors = @ + 1]
    ELSE [q EXCEPT !.unfinished = @ - 1]

WorkerStops == "exited"

\* _worker, line 101: the worker goes back to `while self._running`, which
\* holds as long as stop is not called
WorkerGoesOn == "get"

\* _worker, lines 114-117 and 122-124: func has returned (the result of the
\* task n is written n)
TQTaskReturns(w) ==
    /\ tqWorkers[w].pc = "run"
    /\ LET n == tqWorkers[w].task
       IN  tqTasks' = [tqTasks EXCEPT ![n].result = n, ![n].status = "completed"]
    /\ taskQueue' = TaskDoneCalled(taskQueue)
    /\ tqWorkers' = [tqWorkers EXCEPT ![w] = [pc |-> WorkerGoesOn, task |-> 0]]
    /\ UNCHANGED <<busVars, orchVars, tickVars, engineVars, lifeVars, histOut, breakerVars, retry>>

\* _worker, lines 118-124: func has raised an Exception (the exception of the
\* task n is written n)
TQTaskRaises(w) ==
    /\ tqWorkers[w].pc = "run"
    /\ LET n == tqWorkers[w].task
       IN  tqTasks' = [tqTasks EXCEPT ![n].error = n, ![n].status = "failed"]
    /\ taskQueue' = TaskDoneCalled(taskQueue)
    /\ tqWorkers' = [tqWorkers EXCEPT ![w] = [pc |-> WorkerGoesOn, task |-> 0]]
    /\ UNCHANGED <<busVars, orchVars, tickVars, engineVars, lifeVars, histOut, breakerVars, retry>>

\* get_result(task_id) for a registered task, lines 205-218: the call sleeps
\* while the task is PENDING or RUNNING, then returns task.result or raises
\* task.error
TQGetResult(n) ==
    /\ n \in taskQueue.tasks
    /\ tqTasks[n].got = NotAsked
    /\ tqTasks[n].status \notin {"pending", "running"}
    /\ tqTasks' = [tqTasks EXCEPT ![n].got =
                      IF tqTasks[n].status = "completed"
                      THEN [kind |-> "returned", value |-> tqTasks[n].result]
                      ELSE IF tqTasks[n].status = "failed"
                           THEN [kind |-> "raised", value |-> tqTasks[n].error]
                           ELSE [kind |-> "raised", value |-> None]]
    /\ UNCHANGED <<taskQueue, tqWorkers, busVars, orchVars, tickVars, engineVars, lifeVars,
                   histOut, breakerVars, retry>>

\* a new TaskQueue with one or two workers
InitTaskQueue ==
    /\ BusNew("drop", 1)
    /\ OrchNew
    /\ deps = [e \in EngineNames |-> {}]
    /\ priority = [e \in EngineNames |-> 0]
    /\ PersistIdle
    /\ LifeIdle
    /\ histOut = NoOutput
    /\ BreakerIdle
    /\ retry = NoRetry
    /\ taskQueue \in {TaskQueueNew(mw) : mw \in WorkerChoices}
    /\ tqTasks = <<>>
    /\ tqWorkers = <<>>

NextTaskQueue ==
    \/ TQStart
    \/ \E p \in TaskPriorities : TQEnqueue(p)
    \/ TQPutResumes
    \/ \E w \in DOMAIN tqWorkers : TQWorkerGet(w)
    \/ \E w \in DOMAIN tqWorkers : TQTaskReturns(w)
    \/ \E w \in DOMAIN tqWorkers : TQTaskRaises(w)
    \/ \E n \in DOMAIN tqTasks : TQGetResult(n)

\* tasks are enqueued, run by the workers and asked for
SpecTaskQueue == InitTaskQueue /\ [][NextTaskQueue]_vars

(***************************************************************************)
(* Claims about the EventBus                                               *)
(***************************************************************************)
RECURSIVE Flatten(_)
Flatten(ss) == IF ss = <<>> THEN <<>> ELSE Head(ss) \o Flatten(Tail(ss))

IsPrefix(s, t) == Len(s) <= Len(t) /\ SubSeq(t, 1, Len(s)) = s

\* the events publish accepted, in the order of the publish calls
AcceptedEvents ==
    LET acc == SelectSeq(pubLog, LAMBDA e : e.result = "true")
    IN  [i \in 1..Len(acc) |-> acc[i].ev]

\* the ids of the events handler h was invoked with, in invocation order
ReceivedBy(h) ==
    LET mine == SelectSeq(delivered, LAMBDA d : d[1] = h)
    IN  [i \in 1..Len(mine) |-> mine[i][2]]

\* h is subscribed to type t or to the wildcard
Matches(h, t) == h \in Range(subscribers[t]) \cup Range(subscribers[Wildcard])

\* the accepted events that match h, in publish order
MatchingIds(h) ==
    LET m == SelectSeq(AcceptedEvents, LAMBDA e : Matches(h, e.type))
    IN  [i \in 1..Len(m) |-> m[i].id]

\* one invocation per registration under the literal type, then one per
\* registration under the wildcard, event after event in publish order
ExpectedDeliveries ==
    Flatten([i \in 1..Len(AcceptedEvents) |->
               LET e == AcceptedEvents[i]
                   regs == subscribers[e.type] \o subscribers[Wildcard]
               IN  [j \in 1..Len(regs) |-> <<regs[j], e.id>>]])

\* the case of C1: one worker, and no publish ever met a full queue
SingleWorkerAllAccepted == workerCount = 1 /\ stats.dropped = 0

\* C1 as stated: with one worker and every publish accepted, once the accepted
\* events are processed every handler has received each event matching one of
\* its subscriptions exactly once, in publish order.
C1_OncePerHandler ==
    (SingleWorkerAllAccepted /\ unfinished = 0)
        => \A h \in Handlers : ReceivedBy(h) = MatchingIds(h)

\* C1 as amended: with one worker and every publish accepted, the handler
\* invocations are, event after event in publish order, one per registration
\* matching the event (literal registrations first, then wildcard ones): at
\* every moment a prefix of that sequence, and all of it once the accepted
\* events are processed.  A handler registered twice for an event is invoked
\* twice with it.
C1_OncePerRegistration ==
    SingleWorkerAllAccepted
        => /\ IsPrefix(delivered, ExpectedDeliveries)
           /\ IsPrefix(dispatched, AcceptedEvents)
           /\ unfinished = 0 => delivered = ExpectedDeliveries

C1_Witness ==
    /\ SingleWorkerAllAccepted
    /\ unfinished = 0
    /\ Len(dispatched) >= 2
    /\ \E h \in Handlers : Len(MatchingIds(h)) >= 2 /\ Len(ReceivedBy(h)) > Len(MatchingIds(h))

\* the events that were queued when stop was called have all been dequeued
QueuedAtStopDispatched ==
    \A i \in 1..Len(pubLog) :
        (i <= stopAt /\ pubLog[i].result = "true") => pubLog[i].ev \in Range(dispatched)

\* C2: once stop() is called on a started bus, the events queued at that
\* moment are all dequeued and dispatched and stop() returns with every
\* worker terminated, however many events are queued.  (Runs in which
\* something is published after the call are left out of the claim's case.)
C2_StopDrains ==
    (stopPc = "join" /\ workers # <<>>)
        ~> \/ Len(pubLog) > stopAt
           \/ (QueuedAtStopDispatched /\ stopPc = "done" /\ workers = <<>>)

\* C8: under the "drop" policy a publish that finds the queue full returns
\* false at once (it does not wait for space), leaves the queue as it is and
\* adds exactly one to the dropped counter.
C8_DropOnFull ==
    [][(policy = "drop" /\ QueueFull /\ Len(pubLog') = Len(pubLog) + 1)
         => /\ pubLog'[Len(pubLog')].result = "false"
            /\ putters' = putters
            /\ queue' = queue
            /\ unfinished' = unfinished
            /\ stats'.dropped = stats.dropped + 1]_vars

C8_Witness ==
    /\ policy = "drop"
    /\ QueueFull
    /\ stats.dropped = 1
    /\ pubLog # <<>>
    /\ pubLog[Len(pubLog)].result = "false"

\* C12: after stop() has been called every publish is rejected: none of the
\* publish calls made after the call of stop returns true, and none of their
\* events is put in the queue.
C12_RejectedAfterStop ==
    stopAt >= 0 =>
        \A i \in (stopAt + 1)..Len(pubLog) :
            /\ pubLog[i].result # "true"
            /\ pubLog[i].ev \notin Range(queue)

\* the ids of the events that are being dispatched
InDispatch == {workers[w].ev.id : w \in {v \in DOMAIN workers : workers[v].pc = "dispatch"}}

\* the events whose dispatch is over
Finished == {e \in Range(dispatched) : e.id \notin InDispatch}

\* the handlers invoked with the event of this id, in invocation order
InvokedFor(id) ==
    LET mine == SelectSeq(delivered, LAMBDA d : d[2] = id)
    IN  [i \in 1..Len(mine) |-> mine[i][1]]

\* C19: when a handler raises while an event is dispatched, every handler
\* registered for the event, under its type and under the wildcard, is still
\* invoked for it in registration order; the event is counted as processed
\* (processed counts exactly the events whose dispatch is over); and the
\* worker is not ended by the error: it leaves its loop only when the bus is
\* stopped, and goes on taking the events that follow (in publish order when
\* no publish met a full queue).
C19_HandlerErrorIsolated ==
    /\ \A e \in Finished : InvokedFor(e.id) = HandlersFor(subscribers, e.type)
    /\ \A e \in Range(dispatched) :
           IsPrefix(InvokedFor(e.id), HandlersFor(subscribers, e.type))
    /\ stats.processed = Cardinality(Finished)
    /\ stats.errors = 0
    /\ \A w \in DOMAIN workers : workers[w].pc = "exited" => ~busRunning
    /\ stats.dropped = 0 => IsPrefix(dispatched, AcceptedEvents)

\* the first of two handlers of the first event raised; both were invoked,
\* and the worker has processed that event and the next
C19_Witness ==
    /\ raisedLog # <<>>
    /\ raisedLog[1][2] = 1
    /\ Len(InvokedFor(1)) = 2
    /\ raisedLog[1][1] = InvokedFor(1)[1]
    /\ InvokedFor(1)[1] # InvokedFor(1)[2]
    /\ Len(dispatched) >= 2
    /\ stats.processed >= 2

(***************************************************************************)
(* Claims about initialize                                                 *)
(***************************************************************************)
\* the names e depends on, directly or through other engines, followed for
\* at most n steps
RECURSIVE DependsOn(_, _)
DependsOn(e, n) ==
    IF n = 0 \/ e \notin EngineNames
    THEN {}
    ELSE deps[e] \cup UNION {DependsOn(d, n - 1) : d \in deps[e]}

\* every dependency of the engines in S is itself in S
DepsRegistered(S) == \A e \in S : deps[e] \subseteq S

\* no engine of S depends on itself through a chain of dependencies
Acyclic(S) == \A e \in S : e \notin DependsOn(e, Cardinality(EngineNames))

\* the engines of S that cannot be initialized: those that depend, directly
\* or through other engines, on a name that is not in S or that lies on a cycle
Stuck(S) ==
    {e \in S : \E d \in DependsOn(e, Cardinality(EngineNames)) \cup {e} :
                  \/ d \notin S
                  \/ d \in DependsOn(d, Cardinality(EngineNames))}

\* the engines registered when the current call of initialize was made
RegisteredAtCall == Range(init.registered)

\* C4: for every registration order of engines whose declared dependencies
\* form an acyclic graph of registered names, initialize does not fail with an
\* unresolved dependency, initializes no engine twice, initializes an engine
\* only after every engine it depends on, and on success has initialized
\* every registered engine.
C4_DependencyOrder ==
    (DepsRegistered(RegisteredAtCall) /\ Acyclic(RegisteredAtCall))
        => /\ init.pc # "unresolved"
           /\ \A i, j \in 1..Len(init.order) : init.order[i] = init.order[j] => i = j
           /\ \A i \in 1..Len(init.order) :
                  deps[init.order[i]] \subseteq {init.order[j] : j \in 1..(i - 1)}
           /\ init.pc = "ok" => Range(init.order) = RegisteredAtCall

\* three engines in a chain, registered so that the order of initialization
\* is the reverse of the order of registration
C4_Witness ==
    /\ init.pc = "ok"
    /\ DepsRegistered(RegisteredAtCall)
    /\ Acyclic(RegisteredAtCall)
    /\ Len(init.order) = 3
    /\ \A i \in 1..3 : init.order[i] = init.registered[4 - i]
    /\ \E e \in RegisteredAtCall : Cardinality(deps[e]) = 2

InTick == {t \in {"loop", "ff"} : (IF t = "loop" THEN loop.pc ELSE ff.pc) = "inEngine"}

\* C3: at any moment at most one tick is in progress, whatever the
\* interleaving of the loop of TickScheduler.start with fast_forward: no
\* engine tick of one overlaps an engine tick or the time and counter update
\* of the other.
C3_OneTickAtATime == Cardinality(InTick) <= 1

DistinctPriorities ==
    \A i, j \in 1..Len(engines) : priority[engines[i]] = priority[engines[j]] => i = j

\* what a task did in its tick so far: the update of time and counter first,
\* then the engines by strictly ascending priority
InTickOrder(seen) ==
    seen # <<>> =>
        /\ seen[1] = "tick"
        /\ \A i, j \in 2..Len(seen) : i < j => priority[seen[i]] < priority[seen[j]]

\* C6: with engines of distinct priorities and starting from tick_count = 0,
\* tick_count is the number of ticks that are over plus those in progress and
\* current_time is tick_count * time_per_tick after the initial time; every
\* engine's tick was invoked once in each tick that is over and at most once
\* in each tick in progress, so that with k ticks over and none in progress
\* tick_count = k, current_time = k * time_per_tick and every engine was
\* invoked k times; and in each tick the update comes before the engines,
\* which are invoked in ascending priority order.
C6_TickAccounting ==
    DistinctPriorities
        => /\ world.tick_count = completed + Cardinality(InTick)
           /\ world.current_time = world.tick_count * TimePerTick
           /\ \A e \in Range(engines) : completed <= calls[e] /\ calls[e] <= world.tick_count
           /\ InTick = {} => \A e \in Range(engines) : calls[e] = completed
           /\ InTickOrder(loop.seen)
           /\ InTickOrder(ff.seen)

\* the engines were registered in descending priority order, and the ticks
\* of the loop and of fast_forward are over
C6_Witness ==
    /\ DistinctPriorities
    /\ priority[engines[1]] > priority[engines[2]]
    /\ InTick = {}
    /\ completed = MaxTicks
    /\ Len(loop.seen) = 3
    /\ Len(ff.seen) = 3

\* C7: when fast_forward(n) returns, tick_count is exactly n greater than
\* when it was called and tick_rate is what it was before the call.
C7_FastForwardExact ==
    ff.pc = "returned" => (ff.retCount = ff.start + ff.n /\ ff.retRate = ff.saved)

\* C9: no engine's shutdown is invoked while a tick is in progress, and no
\* engine's tick is invoked after its shutdown was.
C9_NoTeardownUnderTick ==
    /\ stopTask.down # <<>> => InTick = {}
    /\ lateTicks = {}

\* C10: once stop() is called it goes on to invoke shutdown once on every
\* registered engine, in reverse registration order, and returns.
C10_StopCompletes ==
    (stopTask.pc = "bus") ~> (stopTask.pc = "done" /\ stopTask.down = Reverse(engines))

(***************************************************************************)
(* Claims about the registry                                               *)
(***************************************************************************)
\* C11: after any sequence of register_engine calls the registry holds at
\* most one engine per name.
C11_OneEnginePerName ==
    \A i, j \in 1..Len(engines) : NameOf(engines[i]) = NameOf(engines[j]) => i = j

C18_TickErrorIsolated ==
    /\ loop.pc = "inEngine"
         => loop.seen = <<"tick">> \o SubSeq(scheduler.engines, 1, loop.i)
    /\ loop.pc = "sleep"
         => /\ loop.seen = <<"tick">> \o scheduler.engines
            /\ \A e \in Range(engines) : calls[e] = completed
    /\ world.tick_count = completed + Cardinality(InTick)
    /\ world.current_time = world.tick_count * TimePerTick
    /\ loop.pc \in {"none", "created", "inEngine", "sleep"}
    /\ scheduler.exists => scheduler.running
    /\ \A r \in loop.raised : r[1] <= world.tick_count /\ r[2] \in Range(engines)

\* the first engine raised in the first tick; the second engine was ticked
\* in that tick all the same and a further tick has run to its end
C18_Witness ==
    /\ scheduler.exists
    /\ <<1, scheduler.engines[1]>> \in loop.raised
    /\ calls[scheduler.engines[2]] >= 2
    /\ completed >= 2
    /\ loop.pc = "sleep"

(***************************************************************************)
(* WorldState persistence and lazy loading                                 *)
(***************************************************************************)
\* the fields of a WorldState other than its schema version
OtherFields ==
    {"current_time", "scenario_id", "timeline_id", "era", "current_location",
     "engine_states", "tick_count", "seed", "created_at", "updated_at"}

\* the fields a payload stores as ISO text
TimeFields == {"current_time", "created_at", "updated_at"}

\* C13: from_dict applied to a version-0 payload (state_version absent or
\* equal to 0) returns a WorldState whose state_version is the current schema
\* version, every other field having the payload's value
C13_MigratedToCurrent ==
    (out.op = "load" /\ (~out.versioned \/ out.version = 0)) =>
        /\ out.val.state_version = WorldStateVersion
        /\ \A f \in OtherFields :
              out.val[f] = IF f \in TimeFields THEN FromIsoFormat(out.arg[f])
                           ELSE out.arg[f]

\* the keys of engine_states in which two states differ
DifferingKeys(a, b) ==
    {k \in DOMAIN a.engine_states \cup DOMAIN b.engine_states :
        \/ k \notin DOMAIN a.engine_states
        \/ k \notin DOMAIN b.engine_states
        \/ a.engine_states[k] # b.engine_states[k]}

\* C14: applying a.create_diff(b) to a copy of b gives a state equal to a on
\* every WorldState field and every engine_states key in which a and b differ
C14_DiffRestoresDifferences ==
    out.op = "apply_diff" =>
        /\ \A f \in (OtherFields \ {"engine_states"}) \cup {"state_version"} :
              out.a[f] # out.b[f] => out.val[f] = out.a[f]
        /\ \A k \in DifferingKeys(out.a, out.b) :
              IF k \in DOMAIN out.a.engine_states
              THEN /\ k \in DOMAIN out.val.engine_states
                   /\ out.val.engine_states[k] = out.a.engine_states[k]
              ELSE k \notin DOMAIN out.val.engine_states

\* C15: from_dict(to_dict(s)) and from_compressed(to_compressed(s)) each
\* return a state equal to s on all fields
C15_RoundTripEqual ==
    out.op \in {"from_dict", "from_compressed"} => out.val = out.arg

\* C16: the loader of a partition is invoked at most once while the partition
\* stays loaded, however many get_engine_state requests overlap
C16_LoaderAtMostOnce ==
    \A p \in Partitions : loads[p] <= 1

\* C17: restore returns a new object, equal to the state as it was when the
\* snapshot was made, and the same value as every restore before it, whatever
\* was done to the original and to the restored states in between
C17_RestoreIsolated ==
    out.op = "restore" =>
        /\ out.ref = "new"
        /\ out.ret = snap.taken
        /\ \A r \in out.earlier : r = out.ret


(***************************************************************************)
(* Claims about pause, resume, stop and the tick counter                   *)
(***************************************************************************)
\* the bound on ticks leaves room for the loop to begin one more
TickBudget == world.tick_count + FFPending < MaxTicks

\* C21: from pause() until resume() the loop of start begins no tick and
\* changes neither tick_count nor current_time; a tick that was in progress
\* goes on through every remaining engine to its end; and once the scheduler
\* is not paused the sleeping loop ticks again, unless it is paused again or
\* stopped first.
C21_PauseHoldsLoop ==
    /\ [][(scheduler.paused /\ loop' # loop)
            => (world' = world /\ (loop'.pc = "inEngine" => loop.pc = "inEngine"))]_vars
    /\ [](loop.pc = "sleep" => loop.seen = <<"tick">> \o scheduler.engines)
    /\ (loop.pc = "inEngine") ~> (loop.pc = "sleep")
    /\ (loop.pc = "sleep" /\ scheduler.running /\ ~scheduler.paused /\ TickBudget)
          ~> (loop.pc = "inEngine" \/ scheduler.paused \/ ~scheduler.running \/ ~TickBudget)

\* pause was called while the loop was inside a tick
C21_Witness ==
    /\ scheduler.paused
    /\ scheduler.running
    /\ loop.pc = "inEngine"
    /\ loop.i = 1

\* C22: after TickScheduler.stop() the loop begins no tick: it ends the tick
\* in progress, if there is one, sleeps once, and start returns.
C22_StopEndsLoop ==
    /\ [][(scheduler.exists /\ ~scheduler.running /\ loop' # loop)
            => /\ world' = world
               /\ loop.pc = "inEngine" => loop'.pc \in {"inEngine", "sleep"}
               /\ loop.pc = "sleep" => loop'.pc = "exited"]_vars
    /\ (scheduler.exists /\ ~scheduler.running) ~> (loop.pc = "exited")

\* stop was called while the loop was inside a tick
C22_Witness ==
    /\ scheduler.exists
    /\ ~scheduler.running
    /\ loop.pc = "inEngine"
    /\ loop.i = 1

\* C23: whatever the loop, pause, resume, fast_forward, jump_to_time and stop
\* do, tick_count never decreases and changes by exactly +1 at a time, once
\* for every tick: it is the number of ticks that are over or in progress.
C23_TickCountSteps ==
    /\ [][world'.tick_count \in {world.tick_count, world.tick_count + 1}]_vars
    /\ [](world.tick_count = completed + Cardinality(InTick))

\* the loop and fast_forward have ticked, the time was set back by
\* jump_to_time, and the scheduler was stopped
C23_Witness ==
    /\ world.tick_count = MaxTicks
    /\ world.current_time < world.tick_count * TimePerTick
    /\ ff.pc = "returned"
    /\ ff.n = MaxFastForward
    /\ loop.pc = "exited"


(***************************************************************************)
(* Claims about backpressure, dispatch order and the history               *)
(***************************************************************************)
\* how many times the event ev was put in the queue
TimesEnqueued(ev) ==
    Cardinality({i \in 1..Len(queue) : queue[i] = ev})
        + Cardinality({i \in 1..Len(dispatched) : dispatched[i] = ev})

\* what the i-th publish call returned, or "waiting", or "none" before the call
ResultOf(i) == IF i <= Len(pubLog) THEN pubLog[i].result ELSE "none"

\* C24: under the "block" policy a publish that finds the queue full waits
\* for space and is over in the end: either space came and the event was
\* enqueued (then, and only then, publish returns true), or the wait timed
\* out, the event was not enqueued and publish returns false.
C24_BlockWaitsThenDrops ==
    /\ [][(policy = "block" /\ QueueFull /\ Len(pubLog') = Len(pubLog) + 1)
            => /\ pubLog'[Len(pubLog')].result = "waiting"
               /\ queue' = queue]_vars
    /\ [][\A i \in 1..Len(pubLog) :
              (pubLog[i].result = "waiting" /\ pubLog'[i].result # "waiting")
                => IF pubLog'[i].result = "true"
                   THEN ~QueueFull /\ queue' = Append(queue, pubLog[i].ev)
                   ELSE pubLog'[i].result = "false" /\ queue' = queue]_vars
    /\ [](\A i \in 1..Len(pubLog) :
              TimesEnqueued(pubLog[i].ev) = IF pubLog[i].result = "true" THEN 1 ELSE 0)
    /\ \A i \in 1..MaxPublish :
          (ResultOf(i) = "waiting") ~> (ResultOf(i) \in {"true", "false"})

\* a publish met a full queue, waited, and returned true
C24_Witness ==
    /\ policy = "block"
    /\ stats.dropped = 1
    /\ Len(pubLog) = MaxPublish
    /\ \A i \in 1..Len(pubLog) : pubLog[i].result = "true"


\* C25: under the "log" policy a publish that finds the queue full returns
\* false and does not enqueue the event, and the payload of the rejected
\* event is recorded for later inspection.
C25_LogKeepsPayload ==
    policy = "log" =>
        /\ Cardinality({i \in 1..Len(pubLog) : pubLog[i].result = "false"}) = stats.dropped
        /\ \A i \in 1..Len(pubLog) :
              pubLog[i].result = "false"
                  => (TimesEnqueued(pubLog[i].ev) = 0 /\ "data" \in pubLog[i].logged)


\* the handlers that were invoked with the event ev, in invocation order
InvokedWith(ev) ==
    LET mine == SelectSeq(delivered, LAMBDA d : d[2] = ev.id)
    IN  [i \in 1..Len(mine) |-> mine[i][1]]

\* the events a worker is dispatching
BeingDispatched == {workers[w].ev : w \in {v \in DOMAIN workers : workers[v].pc = "dispatch"}}

\* stop has cancelled the workers: a dispatch that was under way is cut short
WorkersCancelled == stopPc \in {"gather", "done"}

\* C26: every processed event of type t is given to the handlers subscribed
\* to t in their registration order and then to the handlers subscribed to
\* the wildcard in theirs, and it is in the history before the first of them
\* is invoked.  (An event whose dispatch is cut short by the cancellation of
\* its worker got a prefix of that sequence.)
C26_DispatchOrder ==
    /\ [](\A i \in 1..Len(dispatched) :
             LET ev == dispatched[i]
                 expected == subscribers[ev.type] \o subscribers[Wildcard]
             IN  /\ IsPrefix(InvokedWith(ev), expected)
                 /\ (ev \notin BeingDispatched /\ ~WorkersCancelled)
                        => InvokedWith(ev) = expected)
    /\ [](\A i \in 1..Len(delivered) :
             \E j \in 1..Len(dispatched) : dispatched[j].id = delivered[i][2])
    /\ [][Len(dispatched') > Len(dispatched)
            => /\ history'[Len(history')] = dispatched'[Len(dispatched')]
               /\ delivered' = delivered]_vars

\* an event was given to a literal subscriber and then to a wildcard
\* subscriber while another worker was dispatching another event
C26_Witness ==
    \E i \in 1..Len(dispatched) :
        /\ Len(InvokedWith(dispatched[i])) = 2
        /\ Len(subscribers[dispatched[i].type]) = 1
        /\ Len(subscribers[Wildcard]) = 1
        /\ subscribers[dispatched[i].type] # subscribers[Wildcard]
        /\ BeingDispatched # {}


\* the last n elements of s, or all of s when it has fewer
LastOf(s, n) == IF Len(s) <= n THEN s ELSE SubSeq(s, Len(s) - n + 1, Len(s))

\* C27: the history never holds more than max_history entries, and it is
\* made of the most recently processed events in the order they were
\* processed: beyond the bound the oldest entry goes.
C27_HistoryBounded ==
    /\ Len(history) <= MaxHistory
    /\ history = LastOf(dispatched, MaxHistory)

\* more events were processed than the history holds
C27_Witness ==
    /\ Len(dispatched) = MaxHistory + 1
    /\ Len(history) = MaxHistory
    /\ history[1] = dispatched[2]


(***************************************************************************)
(* Claims about migration, apply_diff and the random generator             *)
(***************************************************************************)
\* C28: migrate_state(data, from_version, to_version) with from_version <
\* to_version returns data whose state_version is to_version, and the
\* state_version of what from_dict returns is never lower than the stored one.
C28_MigrationReachesTarget ==
    /\ out.op = "migrate" => out.val.state_version = out.to
    /\ out.op = "load" => out.val.state_version >= out.version


\* the fields of the target that the diff does not name
UntouchedFields(diff) ==
    (OtherFields \cup {"state_version"}) \ (DOMAIN diff \cup {"updated_at"})

\* C29: apply_diff(diff, target) with a separate target leaves the state it
\* is called on as it was, and changes in the target only the fields and the
\* engine_states entries the diff names, and updated_at.
C29_ApplyDiffFrame ==
    out.op = "apply_to" =>
        /\ sb = out.self
        /\ \A f \in UntouchedFields(out.diff) : out.val[f] = out.target[f]
        /\ \A k \in DOMAIN out.target.engine_states :
              ("engine_states" \notin DOMAIN out.diff \/ k \notin DOMAIN out.diff.engine_states)
                  => /\ k \in DOMAIN out.val.engine_states
                     /\ out.val.engine_states[k] = out.target.engine_states[k]


\* the first n operations of the runs p and q are the same
SameOps(p, q, n) ==
    /\ n <= Len(rng[p].ops)
    /\ n <= Len(rng[q].ops)
    /\ SubSeq(rng[p].ops, 1, n) = SubSeq(rng[q].ops, 1, n)

\* the place of the operation op in the log of run r, or 0
PlaceOf(r, op) ==
    IF op \in Range(rng[r].ops)
    THEN CHOOSE i \in 1..Len(rng[r].ops) : rng[r].ops[i] = op
    ELSE 0

\* in run r the k operations after setstate are the k operations after getstate
SameAsCaptured(r, k) ==
    LET g == PlaceOf(r, "getstate")
        t == PlaceOf(r, "setstate")
    IN  /\ t + k <= Len(rng[r].ops)
        /\ SubSeq(rng[r].ops, g + 1, g + k) = SubSeq(rng[r].ops, t + 1, t + k)

C31_SchedulerTicksCurrentState ==
    CurrentScheduler # 0 => schedulers[CurrentScheduler].state = world.id

\* the loops that go on ticking: started, not stopped and not over
Ticking == {k \in DOMAIN schedulers : schedulers[k].running /\ schedulers[k].pc # "exited"}

\* C32: at most one tick loop of the orchestrator goes on ticking at any
\* time, and once stop was called no loop started before it goes on ticking
C32_OneLoop ==
    /\ Cardinality(Ticking) <= 1
    /\ StopCalled /\ (\A c \in DOMAIN startCalls : ~startCalls[c].afterStop)
          => Ticking = {}

\* C33: every call of start that went on to tick was made when the most
\* recent call of initialize had returned without raising; any other call
\* of start raised
C33_StartNeedsLastInitialize ==
    \A c \in DOMAIN startCalls :
        startCalls[c].result = "ticking" <=> startCalls[c].initialize = "ok"

(***************************************************************************)
(* Claims about the counters and the history of the EventBus               *)
(***************************************************************************)
\* the publish calls that have returned v
Returned(v) == {i \in DOMAIN pubLog : pubLog[i].result = v}

\* the events put into the queue so far: those still queued and those dequeued
EnqueuedCount == Len(queue) + Len(dispatched)

\* C34: under every backpressure policy, once every publish call has
\* returned, the dropped counter is the number of publish calls that
\* returned false, and published is the number of events enqueued plus dropped
C34_CountersConsistent ==
    putters = <<>> =>
        /\ stats["dropped"] = Cardinality(Returned("false"))
        /\ stats["published"] = EnqueuedCount + stats["dropped"]

\* the events of the history that the call of get_event_history matched
Matching == SelectSeq(histOut.history,
                      LAMBDA e : histOut.event_type = NoType \/ e.type = histOut.event_type)

\* C40: for every limit >= 0, get_event_history(event_type, limit) returns
\* at most limit events: the most recent min(limit, n) of the n events that
\* match event_type (all events for None), in processing order
C40_HistoryLimit ==
    histOut # NoOutput =>
        /\ Len(histOut.returned) <= histOut.limit
        /\ histOut.returned = LastOf(Matching, histOut.limit)

(***************************************************************************)
(* Claims about the CircuitBreaker                                         *)
(***************************************************************************)
\* the step is the beginning of a call of CircuitBreaker.call by the task c
CallBegins(c) == cbCalls'[c].n = cbCalls[c].n + 1

\* the step is the end of the wrapped function in the call of the task c,
\* with the outcome o
FuncEnds(c, o) ==
    /\ cbCalls[c].pc = "inFunc"
    /\ cbCalls'[c].pc = "idle"
    /\ cbCalls'[c].outcome = o

\* seconds since the last change of state
SinceChange == clock - breaker.last_state_change

\* the changes of state the breaker can make in one step
BreakerTransition ==
    breaker'.state # breaker.state =>
        \/ /\ breaker.state = "closed" /\ breaker'.state = "open"
           /\ \E c \in Callers : FuncEnds(c, "raised")
           /\ breaker'.failure_count = breaker.failure_count + 1
           /\ breaker'.failure_count = breaker.failure_threshold
        \/ /\ breaker.state = "open" /\ breaker'.state = "half_open"
           /\ \E c \in Callers : CallBegins(c)
           /\ SinceChange > breaker.timeout
        \/ /\ breaker.state = "half_open" /\ breaker'.state = "closed"
           /\ \E c \in Callers : FuncEnds(c, "returned")
           /\ breaker.success_count + 1 = breaker.success_threshold
           /\ breaker'.failure_count = 0
           /\ breaker'.success_count = 0
        \/ /\ breaker.state = "half_open" /\ breaker'.state = "open"
           /\ \/ \E c \in Callers : FuncEnds(c, "raised")
              \/ /\ \E c \in Callers : CallBegins(c)
                 /\ SinceChange > breaker.half_open_timeout

\* the changes of state the breaker must make
BreakerReaction ==
    \A c \in Callers :
        /\ (FuncEnds(c, "returned") /\ breaker.state = "closed")
              => (breaker'.state = "closed" /\ breaker'.failure_count = 0)
        /\ (FuncEnds(c, "raised") /\ breaker.state = "closed"
                /\ breaker.failure_count + 1 >= breaker.failure_threshold)
              => breaker'.state = "open"
        /\ (CallBegins(c) /\ breaker.state = "open" /\ SinceChange > breaker.timeout)
              => breaker'.state = "half_open"
        /\ (FuncEnds(c, "returned") /\ breaker.state = "half_open"
                /\ breaker.success_count + 1 >= breaker.success_threshold)
              => breaker'.state = "closed"
        /\ (FuncEnds(c, "raised") /\ breaker.state = "half_open")
              => breaker'.state = "open"
        /\ (CallBegins(c) /\ breaker.state = "half_open"
                /\ SinceChange > breaker.half_open_timeout)
              => breaker'.state = "open"

\* C35: the breaker changes state only from CLOSED to OPEN when a failure
\* brings failure_count to failure_threshold, from OPEN to HALF_OPEN on a call
\* made more than timeout after the last change of state, from HALF_OPEN to
\* CLOSED on the success that brings the successes to success_threshold (both
\* counters are then 0), and from HALF_OPEN to OPEN on a failure or on a call
\* made more than half_open_timeout after the last change; it makes each of
\* these changes when its condition is met, a success while CLOSED sets
\* failure_count to 0, and while CLOSED failure_count is below failure_threshold
C35_BreakerTransitions ==
    /\ [](breaker.state = "closed" => breaker.failure_count < breaker.failure_threshold)
    /\ [][BreakerTransition /\ BreakerReaction]_vars

\* the breaker was opened by failures, let a trial call through after the
\* timeout, and was closed again by successes, by a breaker that needs two
\* failures and two successes
C35_Witness ==
    /\ breaker.failure_threshold = 2
    /\ breaker.success_threshold = 2
    /\ breaker.state = "closed"
    /\ breaker.last_state_change > 0
    /\ breaker.last_failure_time # None

\* C36: a call made while the breaker is OPEN and less than timeout has
\* passed since it opened raises CircuitBreakerOpenError, does not enter the
\* wrapped function, and leaves the state and both counters as they were
C36_OpenRejects ==
    [][\A c \in Callers :
          CallBegins(c) /\ breaker.state = "open" /\ SinceChange < breaker.timeout
             => /\ cbCalls'[c].outcome = "open_error"
                /\ cbCalls'[c].pc = "idle"
                /\ \A d \in Callers : cbCalls'[d].pc = "inFunc" => cbCalls[d].pc = "inFunc"
                /\ breaker'.state = "open"
                /\ breaker'.failure_count = breaker.failure_count
                /\ breaker'.success_count = breaker.success_count]_vars

\* a call was rejected by the open breaker before the timeout was over,
\* while another call was inside the wrapped function
C36_Witness ==
    /\ breaker.state = "open"
    /\ SinceChange < breaker.timeout
    /\ cbCalls["c1"].outcome = "open_error"
    /\ cbCalls["c1"].pc = "idle"
    /\ cbCalls["c2"].pc = "inFunc"

(***************************************************************************)
(* Claims about RetryWithBackoff                                           *)
(***************************************************************************)
\* C37: call invokes the function at most max_retries + 1 times; when it
\* returns, it returns the result of the first invocation that succeeded and
\* that invocation was the last; when it raises, it raises the exception of
\* the last invocation, after max_retries + 1 invocations or because
\* retry_on was False for that exception; and an exception for which
\* retry_on is False is never followed by another attempt
C37_RetryBound ==
    retry # NoRetry =>
        /\ retry.invocations <= retry.max_retries + 1
        /\ retry.pc = "returned" =>
              /\ retry.returned = retry.invocations
              /\ Len(retry.errors) = retry.invocations - 1
        /\ retry.pc = "raised" =>
              /\ retry.raised = retry.invocations
              /\ Len(retry.errors) = retry.invocations
              /\ \/ retry.invocations = retry.max_retries + 1
                 \/ retry.retry_on # "None" /\ retry.errors[retry.invocations] = "fatal"
        /\ \A k \in DOMAIN retry.errors :
              retry.retry_on # "None" /\ retry.errors[k] = "fatal"
                 => k = retry.invocations /\ retry.pc = "raised"

\* with max_retries = 3 and a retry_on predicate, the function failed twice
\* with exceptions to retry and then with one retry_on refuses
C37_Witness ==
    /\ retry # NoRetry
    /\ retry.max_retries = 3
    /\ retry.retry_on = "predicate"
    /\ retry.errors = <<"transient", "transient", "fatal">>
    /\ retry.pc = "raised"
    /\ retry.delays = <<1, 2>>

(***************************************************************************)
(* Claims about the TaskQueue                                              *)
(***************************************************************************)
\* the changes of status a task may make
StatusMoves == {<<"pending", "running">>, <<"running", "completed">>, <<"running", "failed">>}

\* every task keeps its status or makes one of the allowed moves
TaskStatusStep ==
    \A n \in DOMAIN tqTasks :
        tqTasks'[n].status # tqTasks[n].status
           => <<tqTasks[n].status, tqTasks'[n].status>> \in StatusMoves

\* a worker whose task fails goes back to the queue
FailureKeepsWorker ==
    \A w \in DOMAIN tqWorkers :
        (tqWorkers[w].pc = "run" /\ tqTasks'[tqWorkers[w].task].status = "failed")
           => tqWorkers'[w].pc = "get"

\* get_result gave the result of a COMPLETED task and raised the error of a
\* FAILED one
ResultsGiven ==
    \A n \in DOMAIN tqTasks :
        tqTasks[n].got # NotAsked =>
            \/ /\ tqTasks[n].status = "completed"
               /\ tqTasks[n].got = [kind |-> "returned", value |-> n]
            \/ /\ tqTasks[n].status = "failed"
               /\ tqTasks[n].got = [kind |-> "raised", value |-> n]

\* C38: a task's status moves only from PENDING to RUNNING and from RUNNING
\* to COMPLETED or FAILED, so a terminal status is never left; the func of
\* each task is called at most once; a worker whose task has failed goes on
\* to take tasks; and get_result returns the result of a COMPLETED task and
\* raises the error of a FAILED one
C38_TaskLifecycle ==
    /\ [][TaskStatusStep /\ FailureKeepsWorker]_vars
    /\ [](\A n \in DOMAIN tqTasks : tqTasks[n].runs <= 1)
    /\ []ResultsGiven

\* with one worker, the first task failed and get_result raised its error,
\* and the same worker then completed the second task, whose result
\* get_result returned
C38_Witness ==
    /\ taskQueue.max_workers = 1
    /\ Len(tqTasks) >= 2
    /\ tqTasks[1].status = "failed"
    /\ tqTasks[1].got = [kind |-> "raised", value |-> 1]
    /\ tqTasks[2].status = "completed"
    /\ tqTasks[2].got = [kind |-> "returned", value |-> 2]
    /\ tqTasks[1].runs = 1
    /\ tqTasks[2].runs = 1

\* C39: every call of enqueue that finds space in the queue returns the id
\* of its task, which is registered and PENDING until a worker takes it,
\* whatever the priorities of the tasks already queued; and a worker always
\* starts a task whose priority value is the least of those queued
C39_EnqueueAnyPriority ==
    \A n \in DOMAIN tqTasks :
        /\ tqTasks[n].enqueue # "TypeError"
        /\ tqTasks[n].enqueue = "returned" => n \in taskQueue.tasks
        /\ tqTasks[n].enqueue = "waiting" => n \in Range(taskQueue.putters)
        /\ tqTasks[n].runs > 0 => tqTasks[n].priority = tqTasks[n].least

=========================================================================
